---- MODULE Spec2Model ----
(***************************************************************************)
(* Verification model of pau1a/LMStudioPlayground: the router pipeline of  *)
(* agent.py and the bounded tool loop of tools_loop.py.                    *)
(*                                                                         *)
(* Python strings are modelled as sequences of one-character strings, so   *)
(* that prefix tests, regular expressions and JSON parsing are computed    *)
(* character by character, as the code computes them.                      *)
(***************************************************************************)
EXTENDS Integers, Sequences, FiniteSets, TLC

(***************************************************************************)
(* Characters and Python string primitives                                 *)
(***************************************************************************)
Digits == {"0", "1", "2", "3", "4", "5", "6", "7", "8", "9"}
LowerSeq == <<"a", "b", "c", "d", "e", "f", "g", "h", "i", "j", "k", "l", "m",
              "n", "o", "p", "q", "r", "s", "t", "u", "v", "w", "x", "y", "z">>
UpperSeq == <<"A", "B", "C", "D", "E", "F", "G", "H", "I", "J", "K", "L", "M",
              "N", "O", "P", "Q", "R", "S", "T", "U", "V", "W", "X", "Y", "Z">>
LowerLetters == {LowerSeq[k] : k \in DOMAIN LowerSeq}
UpperLetters == {UpperSeq[k] : k \in DOMAIN UpperSeq}
Alnum == LowerLetters \cup UpperLetters \cup Digits
\* \w of the re module, on the ASCII characters the model uses
WordChars == Alnum \cup {"_"}
\* \s of the re module, and the characters str.strip() removes
WS == {" ", "\n", "\t", "\r"}

\* str.lower() on one character
LowerCh(c) ==
    IF c \in UpperLetters
    THEN LowerSeq[CHOOSE k \in DOMAIN UpperSeq : UpperSeq[k] = c]
    ELSE c

\* str.lower()
lower(s) == [k \in DOMAIN s |-> LowerCh(s[k])]

\* A local variable assigned once and read several times is written
\*     (CHOOSE one \in { e : x \in {v} } : TRUE)
\* which is e with x standing for the value of v.

\* s[a-1:b] of Python, 1-based and inclusive here; clipped to the string
Slice(s, a, b) ==
    LET lo == IF a < 1 THEN 1 ELSE a
        hi == IF b > Len(s) THEN Len(s) ELSE b
    IN  IF lo > hi THEN <<>> ELSE SubSeq(s, lo, hi)

\* s[:n]
Take(s, n) == IF Len(s) <= n THEN s ELSE SubSeq(s, 1, n)

\* str.startswith(prefix)
startswith(s, prefix) ==
    /\ Len(prefix) <= Len(s)
    /\ \A k \in DOMAIN prefix : s[k] = prefix[k]

RECURSIVE LStripSet(_, _)
\* str.lstrip(chars)
LStripSet(s, chars) ==
    IF s /= <<>> /\ Head(s) \in chars THEN LStripSet(Tail(s), chars) ELSE s

RECURSIVE RStripSet(_, _)
\* str.rstrip(chars)
RStripSet(s, chars) ==
    IF s /= <<>> /\ s[Len(s)] \in chars
    THEN RStripSet(SubSeq(s, 1, Len(s) - 1), chars)
    ELSE s

\* str.lstrip() and str.strip()
lstrip(s) == LStripSet(s, WS)
strip(s) == RStripSet(LStripSet(s, WS), WS)

\* needle in s
Contains(s, needle) ==
    \E k \in 1..(Len(s) - Len(needle) + 1) :
        SubSeq(s, k, k + Len(needle) - 1) = needle

RECURSIVE NatToStr(_)
\* str(n) of a natural number
NatToStr(n) ==
    LET d == <<"0", "1", "2", "3", "4", "5", "6", "7", "8", "9">>[(n % 10) + 1]
    IN  IF n < 10 THEN <<d>> ELSE NatToStr(n \div 10) \o <<d>>

(***************************************************************************)
(* json.loads on the JSON subset the model's texts use: objects, arrays,   *)
(* strings without escapes, decimal numbers, true / false / null.          *)
(***************************************************************************)
JNull == [t |-> "null"]
JBool(b) == [t |-> "bool", b |-> b]
JStr(cs) == [t |-> "str", s |-> cs]
\* the number m / 10^e
JNum(m, e) == [t |-> "num", m |-> m, e |-> e]
JArr(xs) == [t |-> "arr", a |-> xs]
\* a dict: a function from keys (strings) to values
JObj(f) == [t |-> "obj", o |-> f]

ParseFail == [ok |-> FALSE]
ParseOk(v, i) == [ok |-> TRUE, v |-> v, i |-> i]

\* the least index from i on whose character is outside cs, Len(s) + 1 if
\* none (i itself when i is beyond the string)
SkipSet(s, i, cs) ==
    LET rest == {k \in i..Len(s) : s[k] \notin cs}
    IN  IF i > Len(s) THEN i
        ELSE IF rest = {} THEN Len(s) + 1
        ELSE CHOOSE k \in rest : \A m \in rest : k <= m

\* index after the run of whitespace starting at i
SkipWs(s, i) == SkipSet(s, i, WS)

\* index of the closing quote of a string whose body starts at i, 0 if none
\* (a backslash or a raw newline in the body ends the parse)
ScanString(s, i) ==
    LET stops == {k \in i..Len(s) : s[k] \in {"\\", "\n", "\""}}
    IN  IF stops = {} THEN 0
        ELSE LET k == CHOOSE x \in stops : \A m \in stops : x <= m
             IN  IF s[k] = "\"" THEN k ELSE 0

ParseString(s, i) ==
    IF i > Len(s) \/ s[i] /= "\"" THEN ParseFail
    ELSE LET q == ScanString(s, i + 1)
         IN  IF q = 0 THEN ParseFail
             ELSE ParseOk(JStr(Slice(s, i + 1, q - 1)), q + 1)

\* index after the run of digits starting at i
ScanDigits(s, i) == SkipSet(s, i, Digits)

RECURSIVE DigitsValue(_)
DigitsValue(ds) ==
    IF ds = <<>> THEN 0
    ELSE 10 * DigitsValue(SubSeq(ds, 1, Len(ds) - 1))
         + (CHOOSE n \in 0..9 : NatToStr(n) = <<ds[Len(ds)]>>)

ParseNumber(s, i) ==
    LET neg == i <= Len(s) /\ s[i] = "-"
        a   == IF neg THEN i + 1 ELSE i
        b   == ScanDigits(s, a)
        hasFrac == b <= Len(s) /\ s[b] = "." /\ ScanDigits(s, b + 1) > b + 1
        c   == IF hasFrac THEN ScanDigits(s, b + 1) ELSE b
        ip  == Slice(s, a, b - 1)
        fp  == IF hasFrac THEN Slice(s, b + 1, c - 1) ELSE <<>>
        mag == DigitsValue(ip \o fp)
    IN  IF b = a \/ (Len(ip) > 1 /\ ip[1] = "0") THEN ParseFail
        ELSE ParseOk(JNum(IF neg THEN 0 - mag ELSE mag, Len(fp)), c)

ParseLiteral(s, i) ==
    LET at(w) == i + Len(w) - 1 <= Len(s) /\ SubSeq(s, i, i + Len(w) - 1) = w
    IN  IF at(<<"n", "u", "l", "l">>) THEN ParseOk(JNull, i + 4)
        ELSE IF at(<<"t", "r", "u", "e">>) THEN ParseOk(JBool(TRUE), i + 4)
        ELSE IF at(<<"f", "a", "l", "s", "e">>) THEN ParseOk(JBool(FALSE), i + 5)
        ELSE ParseFail

RECURSIVE ParseValue(_, _), ParseMembers(_, _, _), ParseElems(_, _, _)
\* one JSON value starting at index i (after optional whitespace)
ParseValue(s, i) ==
    (CHOOSE one \in {
             IF j > Len(s) THEN ParseFail
             ELSE IF s[j] = "{" THEN
                 (CHOOSE one \in {
                          IF k <= Len(s) /\ s[k] = "}"
                          THEN ParseOk(JObj(<<>>), k + 1)
                          ELSE ParseMembers(s, k, <<>>)
                          : k \in {SkipWs(s, j + 1)}} : TRUE)
             ELSE IF s[j] = "[" THEN
                 (CHOOSE one \in {
                          IF k <= Len(s) /\ s[k] = "]"
                          THEN ParseOk(JArr(<<>>), k + 1)
                          ELSE ParseElems(s, k, <<>>)
                          : k \in {SkipWs(s, j + 1)}} : TRUE)
             ELSE IF s[j] = "\"" THEN ParseString(s, j)
             ELSE IF s[j] \in Digits \cup {"-"} THEN ParseNumber(s, j)
             ELSE ParseLiteral(s, j)
             : j \in {SkipWs(s, i)}} : TRUE)

\* "key": value, ... } with the members read so far in acc (a later
\* duplicate key overwrites an earlier one, as in a Python dict)
ParseMembers(s, i, acc) ==
    (CHOOSE one \in {
             IF ~key.ok THEN ParseFail
             ELSE (CHOOSE one \in {
                      IF c > Len(s) \/ s[c] /= ":" THEN ParseFail
                      ELSE (CHOOSE one \in {
                               IF ~val.ok THEN ParseFail
                               ELSE (CHOOSE one \in {
                                       IF nf[1] > Len(s) THEN ParseFail
                                       ELSE IF s[nf[1]] = "}"
                                            THEN ParseOk(JObj(nf[2]), nf[1] + 1)
                                       ELSE IF s[nf[1]] = ","
                                            THEN ParseMembers(
                                                     s, SkipWs(s, nf[1] + 1), nf[2])
                                       ELSE ParseFail
                                       : nf \in {<< SkipWs(s, val.i),
                                                    [k \in (DOMAIN acc) \cup {key.v.s} |->
                                                        IF k = key.v.s THEN val.v
                                                        ELSE acc[k]] >>}} : TRUE)
                               : val \in {ParseValue(s, c + 1)}} : TRUE)
                      : c \in {SkipWs(s, key.i)}} : TRUE)
             : key \in {ParseString(s, i)}} : TRUE)

\* value, ... ] with the elements read so far in acc
ParseElems(s, i, acc) ==
    (CHOOSE one \in {
             IF ~val.ok THEN ParseFail
             ELSE (CHOOSE one \in {
                      IF nx[1] > Len(s) THEN ParseFail
                      ELSE IF s[nx[1]] = "]"
                           THEN ParseOk(JArr(nx[2]), nx[1] + 1)
                      ELSE IF s[nx[1]] = ","
                           THEN ParseElems(s, nx[1] + 1, nx[2])
                      ELSE ParseFail
                      : nx \in {<< SkipWs(s, val.i), Append(acc, val.v) >>}} : TRUE)
             : val \in {ParseValue(s, i)}} : TRUE)

\* json.loads(s): the whole text is one value; ParseFail where it raises
json_loads(s) ==
    (CHOOSE one \in {
             IF r.ok /\ SkipWs(s, r.i) = Len(s) + 1 THEN r ELSE ParseFail
             : r \in {ParseValue(s, 1)}} : TRUE)

\* isinstance(v, dict)
IsDict(v) == v.t = "obj"

\* Python truthiness of a parsed JSON value
Truthy(v) ==
    CASE v.t = "null" -> FALSE
      [] v.t = "bool" -> v.b
      [] v.t = "num"  -> v.m /= 0
      [] v.t = "str"  -> v.s /= <<>>
      [] v.t = "arr"  -> v.a /= <<>>
      [] v.t = "obj"  -> DOMAIN v.o /= {}

\* dict.get(key), None when the key is absent
DictGet(d, key) == IF key \in DOMAIN d.o THEN d.o[key] ELSE JNull

(***************************************************************************)
(* ProtocolExtractor: extract_last_json_dict (the same code in agent.py    *)
(* and tools_loop.py)                                                      *)
(***************************************************************************)
None == [t |-> "null"]

\* the loop body forgetting the candidate when a fragment fails to parse
ExtractStep_reset_on_failure(text, st, i) ==
    LET ch == text[i]
    IN  IF ch = "{" THEN
            [st EXCEPT !.start = IF st.depth = 0 THEN i ELSE st.start,
                       !.depth = st.depth + 1]
        ELSE IF ch = "}" /\ st.depth > 0 THEN
            LET d == st.depth - 1
                obj == json_loads(Slice(text, st.start, i))
            IN  IF d = 0 /\ st.start /= -1
                THEN [st EXCEPT !.depth = d,
                                !.last = IF obj.ok /\ IsDict(obj.v)
                                         THEN obj.v ELSE None]
                ELSE [st EXCEPT !.depth = d]
        ELSE st

\* the loop body taking every opening brace as the start of the fragment
ExtractStep_restart_on_every_brace(text, st, i) ==
    LET ch == text[i]
    IN  IF ch = "{" THEN
            [st EXCEPT !.start = i, !.depth = st.depth + 1]
        ELSE IF ch = "}" /\ st.depth > 0 THEN
            LET d == st.depth - 1
                obj == json_loads(Slice(text, st.start, i))
            IN  IF d = 0 /\ st.start /= -1 /\ obj.ok /\ IsDict(obj.v)
                THEN [st EXCEPT !.depth = d, !.last = obj.v]
                ELSE [st EXCEPT !.depth = d]
        ELSE st

\* one step of the scan: the loop body for character i
ExtractStep(text, st, i) ==
    LET ch == text[i]
    IN  IF ch = "{" THEN
            [st EXCEPT !.start = IF st.depth = 0 THEN i ELSE st.start,
                       !.depth = st.depth + 1]
        ELSE IF ch = "}" /\ st.depth > 0 THEN
            LET d == st.depth - 1
                obj == json_loads(Slice(text, st.start, i))
            IN  IF d = 0 /\ st.start /= -1 /\ obj.ok /\ IsDict(obj.v)
                THEN [st EXCEPT !.depth = d, !.last = obj.v]
                ELSE [st EXCEPT !.depth = d]
        ELSE st

RECURSIVE ExtractScan(_, _, _)
\* the for loop from character i on; a character that is no brace leaves
\* start, depth and last as they are, so the loop goes from brace to brace
ExtractScan(text, st, i) ==
    (CHOOSE one \in {
             IF j > Len(text) THEN st
             ELSE (CHOOSE one \in {
                                    ExtractScan(text, nxt, j + 1)
                                    : nxt \in {ExtractStep(text, st, j)}} : TRUE)
             : j \in {SkipSet(text, i,
                               {text[k] : k \in DOMAIN text} \ {"{", "}"})}}
               : TRUE)

\* the last top-level {...} fragment of text that parses as a JSON object
extract_last_json_dict(text) ==
    ExtractScan(text, [start |-> -1, depth |-> 0, last |-> None], 1).last

(***************************************************************************)
(* String constants of the two programs                                    *)
(***************************************************************************)
K_path == <<"p", "a", "t", "h">>
K_text == <<"t", "e", "x", "t">>
K_expr == <<"e", "x", "p", "r">>
K_tool == <<"t", "o", "o", "l">>
K_args == <<"a", "r", "g", "s">>
K_final == <<"f", "i", "n", "a", "l">>
T_read_file == <<"r", "e", "a", "d", "_", "f", "i", "l", "e">>
T_write_file == <<"w", "r", "i", "t", "e", "_", "f", "i", "l", "e">>
T_calc == <<"c", "a", "l", "c">>
T_find_number == <<"f", "i", "n", "d", "_", "n", "u", "m", "b", "e", "r">>
S_ERROR == <<"E", "R", "R", "O", "R", ":", " ">>
S_missing_path ==
    <<"E", "R", "R", "O", "R", ":", " ", "m", "i", "s", "s", "i", "n", "g",
      " ", "p", "a", "t", "h">>
S_outside ==
    <<"E", "R", "R", "O", "R", ":", " ", "p", "a", "t", "h", " ", "o", "u",
      "t", "s", "i", "d", "e", " ", "p", "r", "o", "j", "e", "c", "t">>
S_file_not_found ==
    <<"E", "R", "R", "O", "R", ":", " ", "f", "i", "l", "e", " ", "n", "o",
      "t", " ", "f", "o", "u", "n", "d", ":", " ">>
S_wrote == <<"[", "w", "r", "o", "t", "e", " ">>
S_chars_to == <<" ", "c", "h", "a", "r", "s", " ", "t", "o", " ">>
S_invalid_characters ==
    <<"E", "R", "R", "O", "R", ":", " ", "i", "n", "v", "a", "l", "i", "d",
      " ", "c", "h", "a", "r", "a", "c", "t", "e", "r", "s">>
S_no_number ==
    <<"E", "R", "R", "O", "R", ":", " ", "n", "o", " ", "n", "u", "m", "b",
      "e", "r", " ", "f", "o", "u", "n", "d">>
E_outside ==
    <<"p", "a", "t", "h", " ", "o", "u", "t", "s", "i", "d", "e", " ", "p",
      "r", "o", "j", "e", "c", "t">>
E_not_a_file == <<"n", "o", "t", " ", "a", " ", "f", "i", "l", "e", ":", " ">>
E_bad_chars ==
    <<"b", "a", "d", " ", "c", "h", "a", "r", "s", " ", "i", "n", " ", "e",
      "x", "p", "r">>
E_no_number ==
    <<"n", "o", " ", "n", "u", "m", "b", "e", "r", " ", "f", "o", "u", "n",
      "d">>
\* str(e) of an exception raised by the interpreter or the library, not by
\* the program's own raise statements; its text is not modelled (str(e) of a
\* KeyError is the repr of the key, and is)
E_TypeError == <<"T", "y", "p", "e", "E", "r", "r", "o", "r">>
E_AttributeError ==
    <<"A", "t", "t", "r", "i", "b", "u", "t", "e", "E", "r", "r", "o", "r">>
E_OSError == <<"O", "S", "E", "r", "r", "o", "r">>
E_EvalError == <<"E", "v", "a", "l", "E", "r", "r", "o", "r">>

(***************************************************************************)
(* Paths and the file system                                               *)
(***************************************************************************)
\* the project root: os.path.abspath(os.getcwd()), here the directory /p
ROOT == <<"/", "p">>

\* str.split(sep) for a one-character separator
SplitOn(s, sep) ==
    LET seps == {k \in DOMAIN s : s[k] = sep}
        n == Cardinality(seps)
        \* the position of the j-th separator; 0 and Len(s) + 1 bracket them
        pos(j) == IF j = 0 THEN 0
                  ELSE IF j = n + 1 THEN Len(s) + 1
                  ELSE CHOOSE k \in seps : Cardinality({m \in seps : m < k}) = j - 1
    IN  [j \in 1..(n + 1) |-> Slice(s, pos(j - 1) + 1, pos(j) - 1)]

RECURSIVE JoinWith(_, _)
\* sep.join(parts)
JoinWith(parts, sep) ==
    IF parts = <<>> THEN <<>>
    ELSE IF Len(parts) = 1 THEN parts[1]
    ELSE parts[1] \o sep \o JoinWith(Tail(parts), sep)

\* os.path.join(a, b) of posixpath
path_join(a, b) ==
    IF startswith(b, <<"/">>) THEN b
    ELSE IF a = <<>> \/ a[Len(a)] = "/" THEN a \o b
    ELSE a \o <<"/">> \o b

RECURSIVE NormComps(_, _, _)
\* the component loop of posixpath.normpath
NormComps(comps, acc, initial_slashes) ==
    IF comps = <<>> THEN acc
    ELSE LET comp == Head(comps)
         IN  IF comp \in {<<>>, <<".">>} THEN
                 NormComps(Tail(comps), acc, initial_slashes)
             ELSE IF \/ comp /= <<".", ".">>
                     \/ (initial_slashes = 0 /\ acc = <<>>)
                     \/ (acc /= <<>> /\ acc[Len(acc)] = <<".", ".">>)
                  THEN NormComps(Tail(comps), Append(acc, comp), initial_slashes)
             ELSE IF acc /= <<>>
                  THEN NormComps(Tail(comps), SubSeq(acc, 1, Len(acc) - 1),
                                 initial_slashes)
             ELSE NormComps(Tail(comps), acc, initial_slashes)

\* posixpath.normpath
normpath(path) ==
    IF path = <<>> THEN <<".">>
    ELSE LET initial_slashes ==
                 IF ~startswith(path, <<"/">>) THEN 0
                 ELSE IF startswith(path, <<"/", "/">>)
                         /\ ~startswith(path, <<"/", "/", "/">>) THEN 2
                 ELSE 1
             comps == NormComps(SplitOn(path, "/"), <<>>, initial_slashes)
             joined == JoinWith(comps, <<"/">>)
             out == [k \in 1..initial_slashes |-> "/"] \o joined
         IN  IF out = <<>> THEN <<".">> ELSE out

\* os.path.abspath of a path that is already absolute (ROOT is)
abspath(path) == normpath(path)

\* The directories of the modelled disk: / and the project root /p.
Dirs == {<<>>, <<<<"p">>>>}

RECURSIVE WalkPath(_, _)
\* the kernel's path resolution: the components reached from cur, or failure
\* when a component is looked up in something that is not a directory
WalkPath(comps, cur) ==
    IF comps = <<>> THEN [ok |-> TRUE, at |-> cur]
    ELSE IF cur \notin Dirs THEN [ok |-> FALSE]
    ELSE LET c == Head(comps)
         IN  IF c \in {<<>>, <<".">>} THEN WalkPath(Tail(comps), cur)
             ELSE IF c = <<".", ".">>
                  THEN WalkPath(Tail(comps),
                                IF cur = <<>> THEN cur
                                ELSE SubSeq(cur, 1, Len(cur) - 1))
             ELSE WalkPath(Tail(comps), Append(cur, c))

\* the absolute path string of a component sequence
CompsPath(comps) == <<"/">> \o JoinWith(comps, <<"/">>)

\* the file an absolute path names on disk ([ok |-> FALSE] if resolution fails)
Resolve(p) == WalkPath(SplitOn(p, "/"), <<>>)

\* os.path.isfile(p), files being the disk: absolute path -> content
isfile(files, p) ==
    LET r == Resolve(p)
    IN  r.ok /\ CompsPath(r.at) \in DOMAIN files

\* open(p, "w") succeeds: the parent is a directory and p is not one
CanOpenForWrite(p) ==
    LET r == Resolve(p)
    IN  /\ r.ok
        /\ r.at \notin Dirs
        /\ SubSeq(r.at, 1, Len(r.at) - 1) \in Dirs

\* the resolved path lies in the project root's directory tree: its component
\* sequence extends the root's
InsideRoot(p) ==
    LET r == Resolve(p)
        rootComps == Resolve(ROOT).at
    IN  /\ r.ok
        /\ Len(r.at) >= Len(rootComps)
        /\ SubSeq(r.at, 1, Len(rootComps)) = rootComps

(***************************************************************************)
(* Outcome of a tool body: the value returned or the exception raised, the *)
(* disk afterwards, the files it opened and what it handed to eval().      *)
(***************************************************************************)
Ret(val, files, opened, evaluated) ==
    [raised |-> FALSE, val |-> val, files |-> files, opened |-> opened,
     evaluated |-> evaluated]
Raise(msg, files, opened, evaluated) ==
    [raised |-> TRUE, val |-> msg, files |-> files, opened |-> opened,
     evaluated |-> evaluated]

IsStr(v) == v.t = "str"

\* the sandbox test of read_file and write_file: abs_path.startswith(ROOT)
PathCheck(abs_path) == startswith(abs_path, ROOT)

(***************************************************************************)
(* str() of a parsed JSON value                                            *)
(***************************************************************************)
RECURSIVE StripZeros(_)
StripZeros(ds) ==
    IF Len(ds) > 1 /\ ds[Len(ds)] = "0"
    THEN StripZeros(SubSeq(ds, 1, Len(ds) - 1)) ELSE ds

RECURSIVE PadZeros(_, _)
PadZeros(ds, n) == IF Len(ds) >= n THEN ds ELSE PadZeros(<<"0">> \o ds, n)

\* str() of an int or of a float with a short decimal expansion
NumStr(m, e) ==
    LET mag == IF m < 0 THEN 0 - m ELSE m
        ds  == PadZeros(NatToStr(mag), e + 1)
        ip  == SubSeq(ds, 1, Len(ds) - e)
        fp  == SubSeq(ds, Len(ds) - e + 1, Len(ds))
        sgn == IF m < 0 THEN <<"-">> ELSE <<>>
    IN  IF e = 0 THEN sgn \o ip ELSE sgn \o ip \o <<".">> \o StripZeros(fp)

RECURSIVE PyRepr(_), PyStr(_), ReprAll(_), ReprItems(_, _)
\* repr(v): as str(v), with strings quoted
PyRepr(v) == IF v.t = "str" THEN <<"'">> \o v.s \o <<"'">> ELSE PyStr(v)

\* ", ".join(repr(x) for x in xs)
ReprAll(xs) ==
    IF xs = <<>> THEN <<>>
    ELSE IF Len(xs) = 1 THEN PyRepr(xs[1])
    ELSE PyRepr(xs[1]) \o <<",", " ">> \o ReprAll(Tail(xs))

\* the items of a dict, in some order of its keys
ReprItems(f, keys) ==
    IF keys = {} THEN <<>>
    ELSE LET k == CHOOSE x \in keys : TRUE
             item == <<"'">> \o k \o <<"'", ":", " ">> \o PyRepr(f[k])
         IN  IF keys = {k} THEN item
             ELSE item \o <<",", " ">> \o ReprItems(f, keys \ {k})

\* str(v)
PyStr(v) ==
    CASE v.t = "null" -> <<"N", "o", "n", "e">>
      [] v.t = "bool" -> IF v.b THEN <<"T", "r", "u", "e">>
                         ELSE <<"F", "a", "l", "s", "e">>
      [] v.t = "num"  -> NumStr(v.m, v.e)
      [] v.t = "str"  -> v.s
      [] v.t = "arr"  -> <<"[">> \o ReprAll(v.a) \o <<"]">>
      [] v.t = "obj"  -> <<"{">> \o ReprItems(v.o, DOMAIN v.o) \o <<"}">>

(***************************************************************************)
(* Regular expressions of the tools                                        *)
(***************************************************************************)
\* the character class of SAFE_EXPR: [0-9+\-*/().\s^]
SafeChars == Digits \cup {"+", "-", "*", "/", "(", ")", ".", "^"} \cup WS

RECURSIVE RunEnd(_, _, _)
\* index after the longest run of characters of class starting at i
RunEnd(s, i, class) ==
    IF i <= Len(s) /\ s[i] \in class THEN RunEnd(s, i + 1, class) ELSE i

\* $ of the re module: the end of the string, or before its final newline
AtDollar(s, i) == i = Len(s) + 1 \/ (i = Len(s) /\ s[i] = "\n")

\* the pattern without its $ anchor: ^[0-9+\-*/().\s^]* matches a prefix
SAFE_EXPR_match_unanchored(expr) ==
    \E k \in 1..RunEnd(expr, 1, SafeChars) : k <= Len(expr) + 1

\* SAFE_EXPR.match(expr): ^[0-9+\-*/().\s^]*$
SAFE_EXPR_match(expr) ==
    \E k \in 1..RunEnd(expr, 1, SafeChars) : AtDollar(expr, k)

RECURSIVE ReplaceCaret(_)
\* expr.replace("^", "**")
ReplaceCaret(expr) ==
    IF expr = <<>> THEN <<>>
    ELSE (IF Head(expr) = "^" THEN <<"*", "*">> ELSE <<Head(expr)>>)
         \o ReplaceCaret(Tail(expr))

\* NUM_RE at index i: [+-]?(?:\d+(?:\.\d*)?|\.\d+); the index after the
\* match, 0 when there is none
NumBodyEnd(s, j) ==
    IF j <= Len(s) /\ s[j] \in Digits THEN
        LET k == ScanDigits(s, j)
        IN  IF k <= Len(s) /\ s[k] = "." THEN ScanDigits(s, k + 1) ELSE k
    ELSE IF j < Len(s) /\ s[j] = "." /\ s[j + 1] \in Digits
         THEN ScanDigits(s, j + 1)
    ELSE 0

NumMatchEnd(s, i) ==
    IF i <= Len(s) /\ s[i] \in {"+", "-"} /\ NumBodyEnd(s, i + 1) /= 0
    THEN NumBodyEnd(s, i + 1)
    ELSE NumBodyEnd(s, i)

\* NUM_RE.search(text): [ok, s] with the text of the leftmost match
NUM_RE_search(text) ==
    IF \A i \in DOMAIN text : NumMatchEnd(text, i) = 0 THEN [ok |-> FALSE]
    ELSE LET i == CHOOSE a \in DOMAIN text :
                      /\ NumMatchEnd(text, a) /= 0
                      /\ \A b \in 1..(a - 1) : NumMatchEnd(text, b) = 0
         IN  [ok |-> TRUE, s |-> SubSeq(text, i, NumMatchEnd(text, i) - 1)]

(***************************************************************************)
(* Tool bodies of agent.py: each takes the args value of a directive       *)
(***************************************************************************)
\* args.get(key, default); ok is FALSE where args has no .get (not a dict)
ArgsGet(args, key, default) ==
    IF key \in DOMAIN args.o THEN args.o[key] ELSE default

\* read cap of agent.read_file
AgentReadCap == 4000
\* read cap of tools_loop.read_file
LoopReadCap == 8000

agent_read_file(files, args) ==
    IF ~IsDict(args) THEN Raise(E_AttributeError, files, {}, None)
    ELSE LET path == ArgsGet(args, K_path, JStr(<<>>))
         IN  IF ~Truthy(path) THEN Ret(S_missing_path, files, {}, None)
             ELSE IF ~IsStr(path) THEN Raise(E_TypeError, files, {}, None)
             ELSE LET abs_path == abspath(path_join(ROOT, path.s))
                  IN  IF ~PathCheck(abs_path)
                      THEN Ret(S_outside, files, {}, None)
                      ELSE IF ~isfile(files, abs_path)
                      THEN Ret(S_file_not_found \o path.s, files, {}, None)
                      ELSE Ret(Take(files[CompsPath(Resolve(abs_path).at)],
                                    AgentReadCap),
                               files, {abs_path}, None)

agent_write_file(files, args) ==
    IF ~IsDict(args) THEN Raise(E_AttributeError, files, {}, None)
    ELSE LET path == ArgsGet(args, K_path, JStr(<<>>))
             text == ArgsGet(args, K_text, JStr(<<>>))
         IN  IF ~Truthy(path) THEN Ret(S_missing_path, files, {}, None)
             ELSE IF ~IsStr(path) THEN Raise(E_TypeError, files, {}, None)
             ELSE LET abs_path == abspath(path_join(ROOT, path.s))
                      target == CompsPath(Resolve(abs_path).at)
                      with(content) ==
                          [f \in (DOMAIN files) \cup {target} |->
                              IF f = target THEN content ELSE files[f]]
                  IN  IF ~PathCheck(abs_path)
                      THEN Ret(S_outside, files, {}, None)
                      ELSE IF ~CanOpenForWrite(abs_path)
                      THEN Ret(S_ERROR \o E_OSError, files, {}, None)
                      \* open(..., "w") has truncated the file when
                      \* f.write(text) rejects a text that is not a string
                      ELSE IF ~IsStr(text)
                      THEN Ret(S_ERROR \o E_TypeError, with(<<>>),
                               {abs_path}, None)
                      ELSE Ret(S_wrote \o NatToStr(Len(text.s)) \o S_chars_to
                                   \o path.s \o <<"]">>,
                               with(text.s), {abs_path}, None)

\* ev is what eval() does with the expression: [raised, val]
agent_calc(files, args, ev) ==
    IF ~IsDict(args) THEN Raise(E_AttributeError, files, {}, None)
    ELSE LET expr == PyStr(ArgsGet(args, K_expr, JStr(<<>>)))
         IN  IF ~SAFE_EXPR_match(expr)
             THEN Ret(S_invalid_characters, files, {}, None)
             ELSE LET e2 == ReplaceCaret(expr)
                  IN  IF ev.raised
                      THEN Ret(S_ERROR \o ev.val, files, {}, JStr(e2))
                      ELSE Ret(ev.val, files, {}, JStr(e2))

agent_find_number(files, args) ==
    IF ~IsDict(args) THEN Raise(E_AttributeError, files, {}, None)
    ELSE LET text == PyStr(ArgsGet(args, K_text, JStr(<<>>)))
             m == NUM_RE_search(text)
         IN  IF m.ok THEN Ret(m.s, files, {}, None)
             ELSE Ret(S_no_number, files, {}, None)

\* the names of the TOOLS table (the same four in both programs)
ToolNames == {T_read_file, T_write_file, T_calc, T_find_number}

\* TOOLS[t](args) of agent.py, for t a key of TOOLS
agent_call(t, files, args, ev) ==
    CASE t = T_read_file   -> agent_read_file(files, args)
      [] t = T_write_file  -> agent_write_file(files, args)
      [] t = T_calc        -> agent_calc(files, args, ev)
      [] t = T_find_number -> agent_find_number(files, args)

(***************************************************************************)
(* Tool bodies of tools_loop.py: each takes its arguments by keyword and   *)
(* raises on failure; run_tool is the boundary that catches                *)
(***************************************************************************)
loop_read_file(files, path) ==
    IF ~IsStr(path) THEN Raise(E_TypeError, files, {}, None)
    ELSE LET p == abspath(path_join(ROOT, path.s))
         IN  IF ~PathCheck(p) THEN Raise(E_outside, files, {}, None)
             ELSE IF ~isfile(files, p)
             THEN Raise(E_not_a_file \o p, files, {}, None)
             ELSE Ret(Take(files[CompsPath(Resolve(p).at)], LoopReadCap),
                      files, {p}, None)

loop_write_file(files, path, text) ==
    IF ~IsStr(path) THEN Raise(E_TypeError, files, {}, None)
    ELSE LET p == abspath(path_join(ROOT, path.s))
             target == CompsPath(Resolve(p).at)
             with(content) ==
                 [f \in (DOMAIN files) \cup {target} |->
                     IF f = target THEN content ELSE files[f]]
         IN  IF ~PathCheck(p) THEN Raise(E_outside, files, {}, None)
             ELSE IF ~CanOpenForWrite(p)
             THEN Raise(E_OSError, files, {}, None)
             ELSE IF ~IsStr(text)
             THEN Raise(E_TypeError, with(<<>>), {p}, None)
             ELSE Ret(S_wrote \o NatToStr(Len(text.s)) \o S_chars_to
                          \o path.s \o <<"]">>,
                      with(text.s), {p}, None)

loop_calc(files, expr, ev) ==
    IF ~IsStr(expr) THEN Raise(E_TypeError, files, {}, None)
    ELSE IF ~SAFE_EXPR_match(expr.s) THEN Raise(E_bad_chars, files, {}, None)
    ELSE LET e2 == ReplaceCaret(expr.s)
         IN  IF ev.raised THEN Raise(ev.val, files, {}, JStr(e2))
             ELSE Ret(ev.val, files, {}, JStr(e2))

loop_find_number(files, text) ==
    IF ~IsStr(text) THEN Raise(E_TypeError, files, {}, None)
    ELSE LET m == NUM_RE_search(text.s)
         IN  IF m.ok THEN Ret(m.s, files, {}, None)
             ELSE Raise(E_no_number, files, {}, None)

NoEval == [raised |-> TRUE, val |-> E_EvalError]

\* TOOLS[n](**a) of tools_loop.py: the lookup, the binding of the keyword
\* arguments to the parameters, and the body
loop_call(n, a, files, ev) ==
    IF ~IsStr(n) THEN
        \* a list or dict is unhashable (TypeError), anything else is no key
        Raise(IF n.t \in {"arr", "obj"} THEN E_TypeError ELSE PyRepr(n),
              files, {}, None)
    ELSE IF n.s \notin ToolNames THEN Raise(PyRepr(n), files, {}, None)
    ELSE LET params ==
                 CASE n.s = T_read_file   -> {K_path}
                   [] n.s = T_write_file  -> {K_path, K_text}
                   [] n.s = T_calc        -> {K_expr}
                   [] n.s = T_find_number -> {K_text}
         IN  IF DOMAIN a.o /= params THEN Raise(E_TypeError, files, {}, None)
             ELSE CASE n.s = T_read_file ->
                          loop_read_file(files, a.o[K_path])
                    [] n.s = T_write_file ->
                          loop_write_file(files, a.o[K_path], a.o[K_text])
                    [] n.s = T_calc -> loop_calc(files, a.o[K_expr], ev)
                    [] n.s = T_find_number ->
                          loop_find_number(files, a.o[K_text])

\* run_tool with the table lookup outside the try block
run_tool_lookup_outside_try(n, a, files, ev) ==
    (CHOOSE one \in {
             IF r.raised /\ IsStr(n) /\ n.s \in ToolNames
             THEN Ret(S_ERROR \o r.val, r.files, r.opened, r.evaluated)
             ELSE r
             : r \in {loop_call(n, a, files, ev)}} : TRUE)

\* run_tool(n, a): the tool's string, or "ERROR: <exception>"
run_tool(n, a, files, ev) ==
    (CHOOSE one \in {
             IF r.raised
             THEN Ret(S_ERROR \o r.val, r.files, r.opened, r.evaluated)
             ELSE r
             : r \in {loop_call(n, a, files, ev)}} : TRUE)

(***************************************************************************)
(* Regular expressions over the request text                               *)
(***************************************************************************)
IsWordAt(s, i) == i >= 1 /\ i <= Len(s) /\ s[i] \in WordChars

\* \b between the characters i - 1 and i
WordBoundary(s, i) == IsWordAt(s, i - 1) /= IsWordAt(s, i)

\* the literal w at index i, ignoring case: the index after it, 0 if absent
LitEnd(s, i, w) ==
    IF i >= 1 /\ i + Len(w) - 1 <= Len(s)
       /\ lower(SubSeq(s, i, i + Len(w) - 1)) = lower(w)
    THEN i + Len(w) ELSE 0

\* \s+ at index i: the index after the run, 0 if there is no whitespace
WsEnd(s, i) == IF RunEnd(s, i, WS) > i THEN RunEnd(s, i, WS) ELSE 0

RECURSIVE WordsEnd(_, _, _)
\* w1\s+w2\s+...\s+wn at index i, ignoring case
WordsEnd(s, i, words) ==
    LET e == LitEnd(s, i, Head(words))
    IN  IF e = 0 THEN 0
        ELSE IF Len(words) = 1 THEN e
        ELSE IF WsEnd(s, e) = 0 THEN 0
        ELSE WordsEnd(s, WsEnd(s, e), Tail(words))

W_what == <<"w", "h", "a", "t">>
W_is == <<"i", "s">>
W_in == <<"i", "n">>
\* the alternatives of READ_INTENT
ReadVerbs ==
    { <<W_what, W_is, W_in>>,
      <<<<"s", "h", "o", "w">>>>,
      <<<<"d", "i", "s", "p", "l", "a", "y">>>>,
      <<<<"p", "r", "i", "n", "t">>>>,
      <<<<"r", "e", "a", "d">>>>,
      <<<<"o", "p", "e", "n">>>> }

\* re.search(r"\b(alt1|alt2|...)\b", s, re.I) for alternatives of words
SearchWords(s, alts) ==
    \E i \in DOMAIN s, alt \in alts :
        /\ WordBoundary(s, i)
        /\ WordsEnd(s, i, alt) /= 0
        /\ WordBoundary(s, WordsEnd(s, i, alt))

\* _is_read_intent(text)
is_read_intent(text) == SearchWords(text, ReadVerbs)

S_txt == <<".", "t", "x", "t">>

\* [^\s"']*?\.txt from index k: the index after the nearest ".txt" that only
\* such characters separate from k, 0 if there is none
LazyTxtEnd(s, k) ==
    LET ok(d) == /\ LitEnd(s, d, S_txt) /= 0
                 /\ \A j \in k..(d - 1) : s[j] \notin WS \cup {"\"", "'"}
    IN  IF \E d \in k..Len(s) : ok(d)
        THEN LitEnd(s, CHOOSE d \in k..Len(s) :
                           ok(d) /\ \A c \in k..(d - 1) : ~ok(c), S_txt)
        ELSE 0

\* FILE_RE at index i: (?:\./|/)?[^\s"']*?\.txt, the index after the match
FileMatchEnd(s, i) ==
    IF LitEnd(s, i, <<".", "/">>) /= 0 /\ LazyTxtEnd(s, i + 2) /= 0
    THEN LazyTxtEnd(s, i + 2)
    ELSE IF LitEnd(s, i, <<"/">>) /= 0 /\ LazyTxtEnd(s, i + 1) /= 0
    THEN LazyTxtEnd(s, i + 1)
    ELSE LazyTxtEnd(s, i)

TrailingPunct == {".", ",", "!", "?", ":", ";", "'", "\"", ")"}

\* _first_path_in(t): the leftmost FILE_RE match without trailing
\* punctuation, None if there is no match
first_path_in(t) ==
    IF \A i \in DOMAIN t : FileMatchEnd(t, i) = 0 THEN None
    ELSE LET i == CHOOSE a \in DOMAIN t :
                      /\ FileMatchEnd(t, a) /= 0
                      /\ \A b \in 1..(a - 1) : FileMatchEnd(t, b) = 0
         IN  JStr(RStripSet(SubSeq(t, i, FileMatchEnd(t, i) - 1), TrailingPunct))

(***************************************************************************)
(* tools_loop.py: the layers before the loop                               *)
(***************************************************************************)
S_error_open == <<"[", "e", "r", "r", "o", "r", ":", " ">>
S_empty_file == <<"[", "e", "m", "p", "t", "y", " ", "f", "i", "l", "e", "]">>
S_loop_limit ==
    <<"E", "R", "R", "O", "R", ":", " ", "e", "x", "c", "e", "e", "d", "e",
      "d", " ", "t", "o", "o", "l", " ", "l", "o", "o", "p", " ", "l", "i",
      "m", "i", "t">>
S_TOOL_RESULT_colon ==
    <<"T", "O", "O", "L", "_", "R", "E", "S", "U", "L", "T", ":", " ">>
S_corrective ==
    <<"R", "e", "t", "u", "r", "n", " ", "O", "N", "E", " ", "J", "S", "O",
      "N", " ", "o", "b", "j", "e", "c", "t", " ", "o", "n", "l", "y", ":",
      " ", "{", "'", "t", "o", "o", "l", "'", ":", ".", ".", ".", ",", " ",
      "'", "a", "r", "g", "s", "'", ":", ".", ".", ".", "}", " ", "O", "R",
      " ", "{", "'", "f", "i", "n", "a", "l", "'", ":", "'", ".", ".", ".",
      "'", " ", "}", ".">>
FORCE_AGENT_PREFIX == <<"a", "g", "e", "n", "t", ":">>
S_space_file == <<" ", "f", "i", "l", "e">>
S_notes_txt == <<"n", "o", "t", "e", "s", ".", "t", "x", "t">>
S_dot_notes_txt == <<".", "/", "n", "o", "t", "e", "s", ".", "t", "x", "t">>
SYSTEM ==
    <<"\n", "Y", "o", "u", " ", "a", "r", "e", " ", "a", " ", "p", "r",
      "o", "g", "r", "a", "m", "m", "a", "t", "i", "c", " ", "a", "g", "e",
      "n", "t", ".", "\n", "Y", "o", "u", " ", "m", "a", "y", " ", "c",
      "a", "l", "l", " ", "o", "n", "l", "y", " ", "t", "h", "e", "s", "e",
      " ", "t", "o", "o", "l", "s", ":", "\n", "-", " ", "r", "e", "a",
      "d", "_", "f", "i", "l", "e", "(", "p", "a", "t", "h", ")", "\n",
      "-", " ", "w", "r", "i", "t", "e", "_", "f", "i", "l", "e", "(", "p",
      "a", "t", "h", ",", " ", "t", "e", "x", "t", ")", "\n", "-", " ",
      "c", "a", "l", "c", "(", "e", "x", "p", "r", ")", "\n", "-", " ",
      "f", "i", "n", "d", "_", "n", "u", "m", "b", "e", "r", "(", "t", "e",
      "x", "t", ")", "\n", "\n", "R", "u", "l", "e", "s", ":", "\n", "-",
      " ", "R", "e", "p", "l", "y", " ", "w", "i", "t", "h", " ", "O", "N",
      "E", " ", "J", "S", "O", "N", " ", "o", "b", "j", "e", "c", "t", " ",
      "O", "N", "L", "Y", ":", "\n", " ", " ", "{", "\"", "t", "o", "o",
      "l", "\"", ":", "\"", "<", "n", "a", "m", "e", ">", "\"", ",", "\"",
      "a", "r", "g", "s", "\"", ":", "{", ".", ".", ".", "}", "}", " ",
      " ", "O", "R", " ", " ", "{", "\"", "f", "i", "n", "a", "l", "\"",
      ":", "\"", "<", "m", "e", "s", "s", "a", "g", "e", ">", "\"", "}",
      "\n", "-", " ", "U", "s", "e", " ", "a", " ", "t", "o", "o", "l",
      " ", "o", "n", "l", "y", " ", "w", "h", "e", "n", " ", "n", "e", "e",
      "d", "e", "d", ".", " ", "F", "o", "r", " ", "g", "e", "n", "e", "r",
      "a", "l", " ", "q", "u", "e", "s", "t", "i", "o", "n", "s", ",", " ",
      "a", "n", "s", "w", "e", "r", " ", "d", "i", "r", "e", "c", "t", "l",
      "y", " ", "w", "i", "t", "h", " ", "{", "\"", "f", "i", "n", "a",
      "l", "\"", ":", "\"", ".", ".", ".", "\"", "}", ".", "\n", "-", " ",
      "A", "f", "t", "e", "r", " ", "a", " ", "t", "o", "o", "l", " ", "c",
      "a", "l", "l", ",", " ", "y", "o", "u", " ", "w", "i", "l", "l", " ",
      "r", "e", "c", "e", "i", "v", "e", ":", " ", "T", "O", "O", "L", "_",
      "R", "E", "S", "U", "L", "T", ":", " ", "<", "d", "a", "t", "a", ">",
      "\n", " ", " ", "T", "h", "e", "n", " ", "c", "a", "l", "l", " ",
      "a", "n", "o", "t", "h", "e", "r", " ", "t", "o", "o", "l", " ", "o",
      "r", " ", "f", "i", "n", "i", "s", "h", " ", "w", "i", "t", "h", " ",
      "{", "\"", "f", "i", "n", "a", "l", "\"", ":", "\"", ".", ".", ".",
      "\"", "}", ".", "\n", "-", " ", "N", "o", " ", "p", "r", "o", "s",
      "e", ",", " ", "n", "o", " ", "m", "a", "r", "k", "d", "o", "w", "n",
      ",", " ", "n", "o", " ", "m", "u", "l", "t", "i", "p", "l", "e", " ",
      "o", "b", "j", "e", "c", "t", "s", ".", "\n", "-", " ", "D", "o",
      " ", "N", "O", "T", " ", "i", "n", "v", "e", "n", "t", " ", "t", "o",
      "o", "l", "s", ".", "\n">>
Q_sum == <<"s", "u", "m", " ", "1", "+", "1">>
Q_show == <<"s", "h", "o", "w", " ", "a", ".", "t", "x", "t">>
Q_what ==
    <<"w", "h", "a", "t", " ", "i", "s", " ", "i", "n", " ", "a", ".", "t",
      "x", "t">>
Q_what_missing ==
    <<"W", "h", "a", "t", " ", "i", "s", " ", "i", "n", " ", "z", ".", "t",
      "x", "t", "?">>
Q_forced ==
    <<"A", "g", "e", "n", "t", ":", " ", "s", "h", "o", "w", " ", "a", ".",
      "t", "x", "t">>
Q_fix == <<"f", "i", "x", " ", "a", ".", "t", "x", "t">>
Q_open == <<"o", "p", "e", "n", " ", "t", "h", "e", " ", "f", "i", "l", "e">>
R_prose == <<"I", " ", "c", "a", "n", "n", "o", "t", ".">>
R_empty == <<"{", "}">>
R_final ==
    <<"{", "\"", "f", "i", "n", "a", "l", "\"", ":", "\"", "h", "i", "\"",
      "}">>
R_final_num ==
    <<" ", "{", "\"", "f", "i", "n", "a", "l", "\"", ":", "5", "}", "\n">>
R_final_null ==
    <<"{", "\"", "f", "i", "n", "a", "l", "\"", ":", "n", "u", "l", "l",
      "}">>
R_args_str ==
    <<"{", "\"", "t", "o", "o", "l", "\"", ":", "\"", "c", "a", "l", "c",
      "\"", ",", "\"", "a", "r", "g", "s", "\"", ":", "\"", "1", "\"", "}">>
R_read_a ==
    <<"{", "\"", "t", "o", "o", "l", "\"", ":", "\"", "r", "e", "a", "d",
      "_", "f", "i", "l", "e", "\"", ",", "\"", "a", "r", "g", "s", "\"",
      ":", "{", "\"", "p", "a", "t", "h", "\"", ":", "\"", "a", ".", "t",
      "x", "t", "\"", "}", "}">>
R_read_e ==
    <<"{", "\"", "t", "o", "o", "l", "\"", ":", "\"", "r", "e", "a", "d",
      "_", "f", "i", "l", "e", "\"", ",", "\"", "a", "r", "g", "s", "\"",
      ":", "{", "\"", "p", "a", "t", "h", "\"", ":", "\"", "e", ".", "t",
      "x", "t", "\"", "}", "}">>
R_nope ==
    <<"{", "\"", "t", "o", "o", "l", "\"", ":", "\"", "n", "o", "p", "e",
      "\"", ",", "\"", "a", "r", "g", "s", "\"", ":", "{", "}", "}">>
R_write ==
    <<"{", "\"", "t", "o", "o", "l", "\"", ":", "\"", "w", "r", "i", "t",
      "e", "_", "f", "i", "l", "e", "\"", ",", "\"", "a", "r", "g", "s",
      "\"", ":", "{", "\"", "p", "a", "t", "h", "\"", ":", "\"", "a", ".",
      "t", "x", "t", "\"", ",", "\"", "t", "e", "x", "t", "\"", ":", "\"",
      "\"", "}", "}">>
R_both ==
    <<"R", "e", "a", "d", "i", "n", "g", ".", " ", "{", "\"", "t", "o",
      "o", "l", "\"", ":", "\"", "r", "e", "a", "d", "_", "f", "i", "l",
      "e", "\"", ",", "\"", "a", "r", "g", "s", "\"", ":", "{", "\"", "p",
      "a", "t", "h", "\"", ":", "\"", "a", ".", "t", "x", "t", "\"", "}",
      ",", "\"", "f", "i", "n", "a", "l", "\"", ":", "\"", "h", "i", "\"",
      "}">>
F_a_txt == <<"/", "p", "/", "a", ".", "t", "x", "t">>
F_e_txt == <<"/", "p", "/", "e", ".", "t", "x", "t">>
F_notes_txt == <<"/", "p", "/", "n", "o", "t", "e", "s", ".", "t", "x", "t">>
C_Hello == <<"H", "e", "l", "l", "o">>
C_n == <<"n">>

\* a loop that stops one iteration early
LoopLimit_short == 40 - 1
\* a loop that goes one iteration further
LoopLimit_long == 40 + 1
ENABLE_DETERMINISTIC == TRUE
ENABLE_BOOTSTRAP == TRUE
\* range(40): the number of PLANNING turns of one run_query
LoopLimit == 40

RECURSIVE JsonDumps(_), DumpAll(_), DumpItems(_, _)
\* ", ".join(json.dumps(x) for x in xs)
DumpAll(xs) ==
    IF xs = <<>> THEN <<>>
    ELSE IF Len(xs) = 1 THEN JsonDumps(xs[1])
    ELSE JsonDumps(xs[1]) \o <<",", " ">> \o DumpAll(Tail(xs))

\* the members of a dict, in some order of its keys (a dict here keeps no
\* insertion order, so the order of the members in the text is not modelled)
DumpItems(f, keys) ==
    IF keys = {} THEN <<>>
    ELSE LET k == CHOOSE x \in keys : TRUE
             item == <<"\"">> \o k \o <<"\"", ":", " ">> \o JsonDumps(f[k])
         IN  IF keys = {k} THEN item
             ELSE item \o <<",", " ">> \o DumpItems(f, keys \ {k})

\* json.dumps(v) of a value whose strings need no escapes
JsonDumps(v) ==
    CASE v.t = "null" -> <<"n", "u", "l", "l">>
      [] v.t = "bool" -> IF v.b THEN <<"t", "r", "u", "e">>
                         ELSE <<"f", "a", "l", "s", "e">>
      [] v.t = "num"  -> NumStr(v.m, v.e)
      [] v.t = "str"  -> <<"\"">> \o v.s \o <<"\"">>
      [] v.t = "arr"  -> <<"[">> \o DumpAll(v.a) \o <<"]">>
      [] v.t = "obj"  -> <<"{">> \o DumpItems(v.o, DOMAIN v.o) \o <<"}">>

\* json.dumps({"tool": tool, "args": args})
DumpDirective(tool, args) ==
    <<"{", "\"">> \o K_tool \o <<"\"", ":", " ">> \o JsonDumps(tool)
    \o <<",", " ", "\"">> \o K_args \o <<"\"", ":", " ">> \o JsonDumps(args)
    \o <<"}">>

Msg(role, content) == [role |-> role, content |-> content]

\* the deterministic layer switched off (ENABLE_DETERMINISTIC = False)
deterministic_execute_disabled(p, files) == None

\* deterministic_execute(p): the string to return, or None
deterministic_execute(p, files) ==
    IF ~ENABLE_DETERMINISTIC THEN None
    ELSE IF SearchWords(p, {<<W_what, W_is, W_in>>}) /\ Contains(p, S_txt) THEN
        (CHOOSE one \in {
                 IF path = None \/ path.s = <<>> THEN None
                 ELSE (CHOOSE one \in {
                               IF r.raised
                               THEN JStr(S_error_open \o r.val \o <<"]">>)
                               ELSE JStr(r.val)
                               : r \in {loop_read_file(files, path)}} : TRUE)
                 : path \in {first_path_in(p)}} : TRUE)
    ELSE None

\* a bootstrap read that leaves msgs as it is
bootstrap_file_read_unrecorded(msgs, path, files) ==
    [msgs |-> msgs,
     r |-> JStr(run_tool(JStr(T_read_file), JObj(K_path :> path), files, NoEval).val),
     ran |-> TRUE]

\* _bootstrap_file_read(msgs, path): the messages afterwards and the result
bootstrap_file_read(msgs, path, files) ==
    IF ~ENABLE_BOOTSTRAP THEN [msgs |-> msgs, r |-> JStr(<<>>), ran |-> FALSE]
    ELSE LET args == JObj(K_path :> path)
         IN  (CHOOSE one \in {
                      [msgs |-> msgs \o
                           << Msg("assistant",
                                  DumpDirective(JStr(T_read_file), args)),
                              Msg("system", S_TOOL_RESULT_colon \o r.val) >>,
                       r |-> JStr(r.val), ran |-> TRUE]
                      : r \in {run_tool(JStr(T_read_file), args, files, NoEval)}} : TRUE)

\* lines 137-139: the forced-agent prefix
ForcedAgent(q) == startswith(lower(q), FORCE_AGENT_PREFIX)
StripPrefix(q) ==
    IF ForcedAgent(q)
    THEN lstrip(Slice(q, Len(FORCE_AGENT_PREFIX) + 1, Len(q)))
    ELSE q

\* lines 152-158: the path the bootstrap reads, None if it reads nothing
BootstrapPath(q, forced_agent, files) ==
    IF ~ENABLE_BOOTSTRAP \/ forced_agent THEN None
    ELSE (CHOOSE one \in {
                  IF path /= None THEN (IF path.s /= <<>> THEN path ELSE None)
                  ELSE IF Contains(lower(q), S_space_file)
                          /\ isfile(files, path_join(ROOT, S_notes_txt))
                  THEN JStr(S_dot_notes_txt)
                  ELSE None
                  : path \in {first_path_in(q)}} : TRUE)

\* the trusted result returned as it is, an empty one too
TrustedResult_verbatim(last_tool_result) == last_tool_result.s

\* the value returned when the tool result is trusted (line 183)
TrustedResult(last_tool_result) ==
    IF last_tool_result.s /= <<>> THEN last_tool_result.s ELSE S_empty_file

(***************************************************************************)
(* Bounds of the model and the input sets they give                        *)
(***************************************************************************)
\* segments per text handed to the extractor
MaxSegs == 3
\* characters per path argument
MaxPathLen == 4
\* characters per calc expression
MaxExprLen == 3

\* every string over alphabet of length at most n
StringsUpTo(alphabet, n) == UNION {[1..k -> alphabet] : k \in 0..n}

RECURSIVE Flatten(_)
Flatten(parts) == IF parts = <<>> THEN <<>> ELSE Head(parts) \o Flatten(Tail(parts))

\* pieces of model output: JSON objects, stray braces, prose, a balanced
\* fragment that is no JSON, an object with a brace inside a string
ExSegs ==
    { <<"{", "\"", "a", "\"", ":", "1", "}">>,
      <<"{", "\"", "b", "\"", ":", "{", "}", "}">>,
      <<"{">>, <<"}">>, <<"x">>,
      <<"{", "x", "}">>,
      <<"{", "\"", "s", "\"", ":", "\"", "}", "\"", "}">> }
ExTexts == {Flatten(ps) : ps \in StringsUpTo(ExSegs, MaxSegs)}

PathStrs == StringsUpTo({"/", ".", "p", "x"}, MaxPathLen)
ExprStrs == StringsUpTo({"1", "+", "^", "\n", "a", "_"}, MaxExprLen)
WriteTexts == {<<>>, <<"h", "i">>}
NumberTexts == {<<"a">>, <<"a", "-", "1", ".", "5", "b">>, <<"+", ".", "5">>, <<".">>}

\* the disk: a file and an empty file in the project root /p, and (DiskA)
\* a file /px beside the root
DiskB ==
    (<<"/", "p", "/", "x">> :> <<"h", "i">>) @@ (<<"/", "p", "/", "p">> :> <<>>)
DiskA == DiskB @@ (<<"/", "p", "x">> :> <<"s">>)

\* what eval() may do with an expression: return a value or raise
EvalOutcomes ==
    { [raised |-> FALSE, val |-> <<"4">>], [raised |-> TRUE, val |-> E_EvalError] }

Obj1(k, v) == JObj(k :> v)
Obj2(k1, v1, k2, v2) == JObj((k1 :> v1) @@ (k2 :> v2))

\* argument values that are not what the tool expects
OddValues == {JStr(<<"x">>), JNum(5, 0), JNull}
OddKeys == {K_path, K_text, K_expr, <<"x">>}
\* every mapping from some of the keys to such values
OddArgMaps == UNION {{JObj(f) : f \in [ks -> OddValues]} : ks \in SUBSET OddKeys}

\* tool names a directive may carry: the four tools, an unknown name, and
\* values that are not strings
CallNames ==
    {JStr(t) : t \in ToolNames}
        \cup {JStr(<<"n", "o", "p", "e">>), JNum(5, 0), JArr(<<JStr(<<"x">>)>>)}

(***************************************************************************)
(* agent.py: the fallback heuristics (autowrap_to_action)                  *)
(***************************************************************************)
\* the class [A-Za-z0-9._/\-] of PATH_RE, of the declaration pattern and of
\* the tokens of the filesystem probe
PathClass == Alnum \cup {".", "_", "/", "-"}

\* the least and the greatest of a non-empty set of indices
Least(S) == CHOOSE a \in S : \A o \in S : a <= o
Greatest(S) == CHOOSE a \in S : \A o \in S : o <= a

W_a == <<"a">>
W_file == <<"f", "i", "l", "e">>

\* the last index of the run of class characters that holds index i
ClassRunLast(s, i) == RunEnd(s, i, PathClass) - 1

\* \b([A-Za-z0-9_\-./]+)\b\s+is\s+a\s+file matches with its group starting at
\* p, ignoring case: the group runs to the last class character before the
\* whitespace, which a \b must follow
DeclAt(s, p) ==
    /\ s[p] \in PathClass
    /\ WordBoundary(s, p)
    /\ WordBoundary(s, ClassRunLast(s, p) + 1)
    /\ WsEnd(s, ClassRunLast(s, p) + 1) /= 0
    /\ WordsEnd(s, WsEnd(s, ClassRunLast(s, p) + 1), <<W_is, W_a, W_file>>) /= 0

\* the index after the match whose group starts at p
DeclEnd(s, p) ==
    WordsEnd(s, WsEnd(s, ClassRunLast(s, p) + 1), <<W_is, W_a, W_file>>)

RECURSIVE DeclaredFrom(_, _)
\* re.findall of the declaration pattern from index i on: the groups of the
\* matches, leftmost first and not overlapping, lower-cased
DeclaredFrom(s, i) ==
    LET starts == {p \in i..Len(s) : DeclAt(s, p)}
        p == Least(starts)
    IN  IF starts = {} THEN {}
        ELSE {lower(SubSeq(s, p, ClassRunLast(s, p)))}
                 \cup DeclaredFrom(s, DeclEnd(s, p))

\* no declaration is learned
Declared_none(up) == {}

\* the names lines 168-170 add to known_files
Declared(up) == DeclaredFrom(up, 1)

\* the dots at which PATH_RE can end [A-Za-z0-9._/\-]+ when the match starts
\* at a: a class character before them and an alphanumeric after
PathDots(s, a) ==
    {k \in (a + 1)..ClassRunLast(s, a) :
        s[k] = "." /\ k < Len(s) /\ s[k + 1] \in Alnum}

\* the longest extension PATH_RE takes: [A-Za-z0-9]{1,8}
ExtMax == 8

\* PATH_RE.search(s).group(0), None when there is no match: the leftmost
\* start, the last such dot (the + is greedy), up to ExtMax alphanumerics
PATH_RE_search(s) ==
    LET starts == {a \in DOMAIN s : s[a] \in PathClass /\ PathDots(s, a) /= {}}
        a == Least(starts)
        k == Greatest(PathDots(s, a))
        e == RunEnd(s, k + 1, Alnum) - 1
    IN  IF starts = {} THEN None
        ELSE JStr(SubSeq(s, a, IF e > k + ExtMax THEN k + ExtMax ELSE e))

\* the name without its ASCII case
Mentions_case_sensitive(up, name) ==
    \E i \in DOMAIN up :
        /\ WordBoundary(up, i)
        /\ i + Len(name) - 1 <= Len(up)
        /\ SubSeq(up, i, i + Len(name) - 1) = name
        /\ WordBoundary(up, i + Len(name))

\* re.search(rf"\b{re.escape(name)}\b", up, re.IGNORECASE)
Mentions(up, name) ==
    \E i \in DOMAIN up :
        /\ WordBoundary(up, i)
        /\ LitEnd(up, i, name) /= 0
        /\ WordBoundary(up, LitEnd(up, i, name))

RECURSIVE TokensFrom(_, _)
\* re.findall(r"[A-Za-z0-9._/\-]+", s) from index i on
TokensFrom(s, i) ==
    LET starts == {p \in i..Len(s) : s[p] \in PathClass}
        p == Least(starts)
    IN  IF starts = {} THEN <<>>
        ELSE <<SubSeq(s, p, ClassRunLast(s, p))>>
                 \o TokensFrom(s, ClassRunLast(s, p) + 1)

\* lines 192-195: the first token that names a file under ROOT, None if none
ProbeToken(up, files) ==
    LET tokens == TokensFrom(up, 1)
        hits == {n \in DOMAIN tokens : isfile(files, path_join(ROOT, tokens[n]))}
    IN  IF hits = {} THEN None ELSE JStr(tokens[Least(hits)])

\* the class [-+/*()\s.\d^] of the trailing expression
ArithChars == Digits \cup {"-", "+", "/", "*", "(", ")", ".", "^"} \cup WS

\* re.search(r"([-+/*()\s.\d^]+)$", up).group(1), None when there is no match
\* (up is stripped: it has no final newline for $ to stand before)
ArithTail(up) ==
    LET starts == {i \in DOMAIN up : \A j \in i..Len(up) : up[j] \in ArithChars}
    IN  IF starts = {} THEN None
        ELSE JStr(SubSeq(up, Least(starts), Len(up)))

\* the length raw[:4000] keeps
FinalCap == 4000
S_no_output == <<"(", "n", "o", " ", "o", "u", "t", "p", "u", "t", ")">>

\* {"tool": "read_file", "args": {"path": path}}
ReadDirective(path) ==
    JObj((K_tool :> JStr(T_read_file)) @@ (K_args :> JObj(K_path :> JStr(path))))
\* {"tool": "calc", "args": {"expr": expr}}
CalcDirective(expr) ==
    JObj((K_tool :> JStr(T_calc)) @@ (K_args :> JObj(K_expr :> JStr(expr))))
\* {"final": text}
FinalDirective(text) == JObj(K_final :> JStr(text))

\* lines 173-178, for p what json.loads(raw) gave: a dict with a "tool" or a
\* "final" key
PassThrough(p) ==
    p.ok /\ IsDict(p.v) /\ DOMAIN p.v.o \cap {K_tool, K_final} /= {}

\* the known files the loop of lines 187-189 may return for up: those the
\* request mentions (a set is iterated in no fixed order)
Recalled(up, known) == {n \in known : Mentions(up, n)}

\* the rules with the arithmetic tail tried before the paths and the files
Heuristics_arithmetic_first(raw, up, known, files) ==
    IF ArithTail(up) /= None
       /\ \E k \in DOMAIN ArithTail(up).s : ArithTail(up).s[k] \in Digits
    THEN {[data |-> CalcDirective(strip(ArithTail(up).s)), rule |-> "arithmetic"]}
    ELSE IF PATH_RE_search(up) /= None
    THEN {[data |-> ReadDirective(RStripSet(PATH_RE_search(up).s, TrailingPunct)),
           rule |-> "explicit-path"]}
    ELSE IF Recalled(up, known) /= {}
    THEN {[data |-> ReadDirective(name), rule |-> "known-file"]
             : name \in Recalled(up, known)}
    ELSE IF ProbeToken(up, files) /= None
    THEN {[data |-> ReadDirective(ProbeToken(up, files).s), rule |-> "probe"]}
    ELSE {[data |-> FinalDirective(IF Take(raw, FinalCap) /= <<>>
                                   THEN Take(raw, FinalCap) ELSE S_no_output),
           rule |-> "default"]}

\* lines 180-202 for the stripped request up and the stripped text raw: the
\* rules after the pass-through, each result with the rule that made it
Heuristics(raw, up, known, files) ==
    (CHOOSE one \in {
             IF mp /= None
             THEN {[data |-> ReadDirective(RStripSet(mp.s, TrailingPunct)),
                    rule |-> "explicit-path"]}
             ELSE (CHOOSE one \in {
                           IF names /= {}
                           THEN {[data |-> ReadDirective(name), rule |-> "known-file"]
                                    : name \in names}
                           ELSE (CHOOSE one \in {
                                         IF token /= None
                                         THEN {[data |-> ReadDirective(token.s),
                                                rule |-> "probe"]}
                                         ELSE (CHOOSE one \in {
                                                       IF cm /= None
                                                          /\ \E k \in DOMAIN cm.s :
                                                                 cm.s[k] \in Digits
                                                       THEN {[data |-> CalcDirective(
                                                                          strip(cm.s)),
                                                              rule |-> "arithmetic"]}
                                                       ELSE {[data |-> FinalDirective(
                                                                 IF Take(raw, FinalCap)
                                                                        /= <<>>
                                                                 THEN Take(raw, FinalCap)
                                                                 ELSE S_no_output),
                                                              rule |-> "default"]}
                                                       : cm \in {ArithTail(up)}} : TRUE)
                                         : token \in {ProbeToken(up, files)}} : TRUE)
                           : names \in {Recalled(up, known)}} : TRUE)
             : mp \in {PATH_RE_search(up)}} : TRUE)

\* autowrap_to_action(raw, user_prompt) with known_files = known: the
\* directives it may return, each with the rule that made it and the
\* known_files it leaves
autowrap_to_action(raw0, user_prompt, known, files) ==
    (CHOOSE one \in {
             (CHOOSE one \in {
                      (CHOOSE one \in {
                               (CHOOSE one \in {
                                        IF PassThrough(p)
                                        THEN {[data |-> p.v, rule |-> "pass-through",
                                               known |-> learned]}
                                        ELSE {[data |-> h.data, rule |-> h.rule,
                                               known |-> learned]
                                                 : h \in Heuristics(raw, up, learned,
                                                                    files)}
                                        : p \in {json_loads(raw)}} : TRUE)
                               : learned \in {known \cup Declared(up)}} : TRUE)
                      : up \in {strip(user_prompt)}} : TRUE)
             : raw \in {strip(raw0)}} : TRUE)

(***************************************************************************)
(* agent.py: direct commands, the planner and run_query                    *)
(***************************************************************************)
W_bang_read == <<"!", "r", "e", "a", "d">>
W_bang_write == <<"!", "w", "r", "i", "t", "e">>
W_bang_calc == <<"!", "c", "a", "l", "c">>
W_bang_num == <<"!", "n", "u", "m">>
W_heredoc == <<"<", "<", "<">>

\* the characters of s other than the newline (what . takes)
NotNewline(s) == {s[k] : k \in DOMAIN s} \ {"\n"}
\* the characters of s that are not whitespace (what \S takes)
NotWs(s) == {s[k] : k \in DOMAIN s} \ WS

\* ^!cmd\s+(.+)$ ignoring case: group 1, None when q does not match (. takes
\* no newline, and $ stands at the end or before a final newline)
DirectArg(q, cmd) ==
    IF LitEnd(q, 1, cmd) = 0 \/ WsEnd(q, LitEnd(q, 1, cmd)) = 0 THEN None
    ELSE LET a == WsEnd(q, LitEnd(q, 1, cmd))
             e == RunEnd(q, a, NotNewline(q))
         IN  IF e > a /\ AtDollar(q, e) THEN JStr(SubSeq(q, a, e - 1)) ELSE None

\* RE_WRITE, ^!write\s+(\S+)\s+<<<\s*(.*)$ with DOTALL: the two groups, None
\* when q does not match
WriteArgs(q) ==
    IF LitEnd(q, 1, W_bang_write) = 0
       \/ WsEnd(q, LitEnd(q, 1, W_bang_write)) = 0 THEN None
    ELSE LET a == WsEnd(q, LitEnd(q, 1, W_bang_write))
             b == RunEnd(q, a, NotWs(q))
         IN  IF b = a \/ WsEnd(q, b) = 0 \/ LitEnd(q, WsEnd(q, b), W_heredoc) = 0
             THEN None
             ELSE LET c == RunEnd(q, LitEnd(q, WsEnd(q, b), W_heredoc), WS)
                  IN  [t |-> "groups", path |-> SubSeq(q, a, b - 1),
                       text |-> SubSeq(q, c, Len(q))]

\* the call a direct command makes: tool and args
DirectCall(tool, args) == [t |-> "call", tool |-> tool, args |-> args]

\* lines 208-221: the tool call handle_direct_command(q) makes, None when q
\* is no direct command
handle_direct_command(q) ==
    IF DirectArg(q, W_bang_read) /= None
    THEN DirectCall(T_read_file,
                    JObj(K_path :> JStr(strip(DirectArg(q, W_bang_read).s))))
    ELSE IF WriteArgs(q) /= None
    THEN DirectCall(T_write_file,
                    JObj((K_path :> JStr(WriteArgs(q).path))
                         @@ (K_text :> JStr(WriteArgs(q).text))))
    ELSE IF DirectArg(q, W_bang_calc) /= None
    THEN DirectCall(T_calc,
                    JObj(K_expr :> JStr(strip(DirectArg(q, W_bang_calc).s))))
    ELSE IF DirectArg(q, W_bang_num) /= None
    THEN DirectCall(T_find_number,
                    JObj(K_text :> JStr(DirectArg(q, W_bang_num).s)))
    ELSE None

\* another text for the chat sentinel
SENTINEL_CHAT_other == <<"<", "|", "t", "a", "l", "k", "|", ">">>

SENTINEL_AGENT == <<"<", "|", "a", "g", "e", "n", "t", "|", ">">>
SENTINEL_CHAT == <<"<", "|", "c", "h", "a", "t", "|", ">">>

\* plan_route: the dict made of the planner's text raw
plan_route(raw0) ==
    (CHOOSE one \in {
             (CHOOSE one \in {
                      IF p.ok /\ IsDict(p.v) THEN p.v
                      ELSE (CHOOSE one \in {
                                    IF Truthy(obj) THEN obj ELSE JObj(<<>>)
                                    : obj \in {extract_last_json_dict(raw)}} : TRUE)
                      : p \in {json_loads(raw)}} : TRUE)
             : raw \in {strip(raw0)}} : TRUE)

K_route == <<"r", "o", "u", "t", "e">>
K_confidence == <<"c", "o", "n", "f", "i", "d", "e", "n", "c", "e">>
W_tool == <<"t", "o", "o", "l">>
W_chat == <<"c", "h", "a", "t">>

\* float(v) inside the try of lines 259-262: a number [m, e] standing for
\* m / 10^e; what float() rejects gives 0.0.  Of the strings float() accepts,
\* those written as JSON numbers are parsed; the inputs hold no other form
\* (exponents, a bare leading or trailing dot, inf, nan, underscores).
PyFloat(v) ==
    CASE v.t = "num"  -> v
      [] v.t = "bool" -> JNum(IF v.b THEN 1 ELSE 0, 0)
      [] v.t = "str"  -> LET p == json_loads(strip(v.s))
                         IN  IF p.ok /\ p.v.t = "num" THEN p.v ELSE JNum(0, 0)
      [] OTHER        -> JNum(0, 0)

RECURSIVE Pow10(_)
Pow10(n) == IF n = 0 THEN 1 ELSE 10 * Pow10(n - 1)

\* PLAN_CONF_THRESHOLD = 0.6, as 6 / 10^1
PLAN_CONF_THRESHOLD == JNum(6, 1)

\* a >= b for two such numbers
NumGeq(a, b) == a.m * Pow10(b.e) >= b.m * Pow10(a.e)

\* valid_tool_choice(tool, args) for args a dict: ok is FALSE where the set
\* membership test raises (a list or a dict cannot be hashed)
valid_tool_choice(tool, args) ==
    IF tool.t \in {"arr", "obj"} THEN [ok |-> FALSE, v |-> FALSE]
    ELSE [ok |-> TRUE,
          v |-> /\ IsStr(tool)
                /\ tool.s \in ToolNames
                /\ (tool.s = T_read_file => K_path \in DOMAIN args.o)
                /\ (tool.s = T_write_file => {K_path, K_text} \subseteq DOMAIN args.o)
                /\ (tool.s = T_calc => K_expr \in DOMAIN args.o)
                /\ (tool.s = T_find_number => K_text \in DOMAIN args.o)]

S_unknown_tool ==
    <<"E", "R", "R", "O", "R", ":", " ", "u", "n", "k", "n", "o", "w", "n", " ",
      "t", "o", "o", "l", " ", "'">>
S_TOOL_RESULT == <<"[", "T", "O", "O", "L", " ", "R", "E", "S", "U", "L", "T", "]", " ">>
S_no_valid_result ==
    <<"E", "R", "R", "O", "R", ":", " ", "n", "o", " ", "v", "a", "l", "i", "d", " ",
      "r", "e", "s", "u", "l", "t">>

\* what run_query hands back: the value returned or the exception raised, the
\* tools it ran (name and args), and the disk it leaves
Answer(raised, val, ran, files) ==
    [raised |-> raised, val |-> val, ran |-> ran, files |-> files]

\* the tag put before the result of read_file as well
Surface_always_tagged(tool, result) == S_TOOL_RESULT \o result

\* result if tool == "read_file" else f"[TOOL RESULT] {result}"
Surface(tool, result) ==
    IF tool = T_read_file THEN result ELSE S_TOOL_RESULT \o result

\* what eval() may do when tool t is called with args a: it is reached only by
\* calc, with an expression SAFE_EXPR lets through
EvalsFor(t, a) ==
    IF t = T_calc /\ IsDict(a)
       /\ SAFE_EXPR_match(PyStr(ArgsGet(a, K_expr, JStr(<<>>))))
    THEN EvalOutcomes ELSE {NoEval}

\* fn(a) for fn = TOOLS[t], then the value run_query returns: the answers
\* there may be
CallTool(t, a, files, wrapped) ==
    { (CHOOSE one \in {
               Answer(r.raised,
                      JStr(IF r.raised \/ ~wrapped THEN r.val ELSE Surface(t, r.val)),
                      <<[tool |-> t, args |-> a]>>, r.files)
               : r \in {agent_call(t, files, a, ev)}} : TRUE)
      : ev \in EvalsFor(t, a) }

\* lines 278-284 and 303-309: fn = TOOLS.get(t); fn(a); the wrapping
RunDirective(t, a, files) ==
    IF t.t \in {"arr", "obj"} THEN {Answer(TRUE, JStr(E_TypeError), <<>>, files)}
    ELSE IF ~(IsStr(t) /\ t.s \in ToolNames)
    THEN {Answer(FALSE, JStr(S_unknown_tool \o PyStr(t) \o <<"'">>), <<>>, files)}
    ELSE CallTool(t.s, a, files, TRUE)

\* the planner's view of a request: lines 248-262
Planned(plan, force_agent) ==
    [route |-> IF force_agent THEN W_tool
               ELSE lower(PyStr(ArgsGet(plan, K_route, JStr(<<>>)))),
     tool  |-> ArgsGet(plan, K_tool, JNull),
     args  |-> IF IsDict(DictGet(plan, K_args))
               THEN ArgsGet(plan, K_args, JObj(<<>>)) ELSE JObj(<<>>),
     conf  |-> IF force_agent THEN JNum(1, 0)
               ELSE PyFloat(ArgsGet(plan, K_confidence, JNum(0, 0)))]

\* the record of one autowrap_to_action call
AutoCall(raw, up, before, w) ==
    [raw |-> raw, up |-> up, before |-> before, data |-> w.data,
     rule |-> w.rule, after |-> w.known]

\* a fallback that asks the model a second time before it wraps the text
Fallback_asking_twice(q, raw, known, files, llm, auto) ==
    UNION {
      LET data == w.data
          End(branch, out) ==
              [branch |-> branch, llm |-> llm \o <<"fallback", "fallback">>,
               auto |-> Append(auto, AutoCall(raw, q, known, w)),
               known |-> w.known, out |-> out]
      IN  IF K_tool \in DOMAIN data.o
          THEN {End("fallback-tool", out) :
                   out \in RunDirective(data.o[K_tool],
                                        ArgsGet(data, K_args, JObj(<<>>)), files)}
          ELSE IF K_final \in DOMAIN data.o
          THEN {End("fallback-final", Answer(FALSE, data.o[K_final], <<>>, files))}
          ELSE {End("no-result", Answer(FALSE, JStr(S_no_valid_result), <<>>, files))}
      : w \in autowrap_to_action(raw, q, known, files) }

\* lines 294-314: the fallback, after the calls made so far
Fallback(q, raw, known, files, llm, auto) ==
    UNION {
      LET data == w.data
          End(branch, out) ==
              [branch |-> branch, llm |-> Append(llm, "fallback"),
               auto |-> Append(auto, AutoCall(raw, q, known, w)),
               known |-> w.known, out |-> out]
      IN  IF K_tool \in DOMAIN data.o
          THEN {End("fallback-tool", out) :
                   out \in RunDirective(data.o[K_tool],
                                        ArgsGet(data, K_args, JObj(<<>>)), files)}
          ELSE IF K_final \in DOMAIN data.o
          THEN {End("fallback-final", Answer(FALSE, data.o[K_final], <<>>, files))}
          ELSE {End("no-result", Answer(FALSE, JStr(S_no_valid_result), <<>>, files))}
      : w \in autowrap_to_action(raw, q, known, files) }

\* lines 247-314 for the request q, plan being what plan_route(q) returned
Routed(q, force_agent, plan, known, files, reply) ==
    (CHOOSE one \in {
             LET gate == p.route = W_tool
                         /\ (force_agent \/ NumGeq(p.conf, PLAN_CONF_THRESHOLD))
                 valid == valid_tool_choice(p.tool, p.args)
                 End(branch, llm, out) ==
                     [branch |-> branch, llm |-> llm, auto |-> <<>>,
                      known |-> known, out |-> out]
             IN  IF gate /\ p.tool /= JNull /\ ~valid.ok
                 THEN {End("planner-raise", <<"planner">>,
                           Answer(TRUE, JStr(E_TypeError), <<>>, files))}
                 ELSE IF gate /\ p.tool /= JNull /\ valid.v /\ Truthy(p.tool)
                 THEN {End("planner-tool", <<"planner">>, out) :
                          out \in RunDirective(p.tool, p.args, files)}
                 ELSE IF gate /\ p.tool = JNull
                 THEN UNION {
                        IF K_tool \in DOMAIN w.data.o
                        THEN {[branch |-> "heuristic-tool",
                               llm |-> <<"planner">>,
                               auto |-> <<AutoCall(<<>>, q, known, w)>>,
                               known |-> w.known,
                               out |-> out] :
                                 out \in RunDirective(
                                            w.data.o[K_tool],
                                            ArgsGet(w.data, K_args, JObj(<<>>)),
                                            files)}
                        ELSE Fallback(q, reply, w.known, files, <<"planner">>,
                                      <<AutoCall(<<>>, q, known, w)>>)
                        : w \in autowrap_to_action(<<>>, q, known, files) }
                 ELSE IF p.route = W_chat
                         /\ NumGeq(p.conf, PLAN_CONF_THRESHOLD) /\ ~force_agent
                 THEN {End("confident-chat", <<"planner", "chat">>,
                           Answer(FALSE, JStr(strip(reply)), <<>>, files))}
                 ELSE Fallback(q, reply, known, files, <<"planner">>, <<>>)
             : p \in {Planned(plan, force_agent)}} : TRUE)

\* run_query(user_input) with known_files = known on the disk files, the
\* planner answering plan_raw and the chat or fallback call answering reply:
\* the runs it may make, each with the branch taken, the llm() calls and
\* autowrap_to_action calls made, the known_files left and the answer
run_query(user_input, known, files, plan_raw, reply) ==
    (CHOOSE one \in {
             (CHOOSE one \in {
                      IF direct /= None
                      THEN {[branch |-> "direct", llm |-> <<>>, auto |-> <<>>,
                             known |-> known, out |-> out] :
                               out \in CallTool(direct.tool, direct.args, files,
                                                FALSE)}
                      ELSE IF ~startswith(q0, SENTINEL_AGENT)
                              /\ startswith(q0, SENTINEL_CHAT)
                      THEN {[branch |-> "chat-sentinel", llm |-> <<"chat">>,
                             auto |-> <<>>, known |-> known,
                             out |-> Answer(FALSE, JStr(strip(reply)), <<>>, files)]}
                      ELSE Routed(IF startswith(q0, SENTINEL_AGENT)
                                  THEN lstrip(Slice(q0, Len(SENTINEL_AGENT) + 1,
                                                    Len(q0)))
                                  ELSE q0,
                                  startswith(q0, SENTINEL_AGENT),
                                  plan_route(plan_raw), known, files, reply)
                  : direct \in {handle_direct_command(q0)}} : TRUE)
             : q0 \in {strip(user_input)}} : TRUE)

(***************************************************************************)
(* Requests and model answers of the router pipeline                       *)
(***************************************************************************)
\* the requests typed at the prompt
I_notes_decl ==
    <<"n", "o", "t", "e", "s", " ", "i", "s", " ", "a", " ", "f", "i", "l",
      "e">>
I_budget_decl ==
    <<"B", "u", "d", "g", "e", "t", ".", "C", "S", "V", " ", "i", "s", " ",
      "a", " ", "f", "i", "l", "e">>
I_data_decl ==
    <<"d", "a", "t", "a", " ", "i", "s", " ", "a", " ", "f", "i", "l", "e">>
I_show_notes ==
    <<"s", "h", "o", "w", " ", "N", "O", "T", "E", "S">>
I_compare ==
    <<"c", "o", "m", "p", "a", "r", "e", " ", "n", "o", "t", "e", "s", " ",
      "a", "n", "d", " ", "d", "a", "t", "a">>
I_open_budget ==
    <<"o", "p", "e", "n", " ", "B", "U", "D", "G", "E", "T", ".", "C", "S",
      "V">>
I_read_x ==
    <<"r", "e", "a", "d", " ", "x">>
I_sum ==
    <<"w", "h", "a", "t", " ", "i", "s", " ", "2", "+", "2">>
I_hello ==
    <<"h", "e", "l", "l", "o">>
I_footnotes ==
    <<"m", "y", " ", "f", "o", "o", "t", "n", "o", "t", "e", "s">>
I_bang_read ==
    <<"!", "r", "e", "a", "d", " ", "x">>
I_bang_calc ==
    <<"!", "C", "A", "L", "C", " ", "1", "+", "1">>
I_bang_write ==
    <<"!", "w", "r", "i", "t", "e", " ", "x", " ", "<", "<", "<", " ", "y",
      "o">>
I_bang_num ==
    <<"!", "n", "u", "m", " ", "x", " ", "i", "s", " ", "a", " ", "f", "i",
      "l", "e", " ", "4", "2">>
\* a request with the chat sentinel that declares a file, names a
\* remembered file and an existing one, and ends in arithmetic
I_chat ==
    <<"<", "|", "c", "h", "a", "t", "|", ">", "r", "e", "a", "d", " ",
      "n", "o", "t", "e", "s", ";", " ", "x", " ", "i", "s", " ", "a",
      " ", "f", "i", "l", "e", " ", "2", "+", "2">>
I_agent ==
    <<"<", "|", "a", "g", "e", "n", "t", "|", ">", " ", "s", "h", "o", "w",
      " ", "n", "o", "t", "e", "s">>
\* requests that end in arithmetic and name a remembered file, an existing
\* file, a path with an extension
I_notes_sum ==
    <<"n", "o", "t", "e", "s", " ", "2", "+", "2">>
I_x_sum ==
    <<"x", " ", "2", "+", "2">>
I_path_sum ==
    <<"a", ".", "b", " ", "1", "+", "1">>
RouterInputs ==
    { I_notes_decl, I_budget_decl, I_data_decl, I_show_notes,
      I_compare, I_open_budget, I_read_x, I_sum,
      I_hello, I_footnotes, I_bang_read, I_bang_calc,
      I_bang_write, I_bang_num, I_chat, I_agent,
      I_notes_sum, I_x_sum, I_path_sum }

\* what the planner call may answer
P_chat ==
    <<"{", "\"", "r", "o", "u", "t", "e", "\"", ":", "\"", "c", "h", "a",
      "t", "\"", ",", "\"", "t", "o", "o", "l", "\"", ":", "n", "u", "l",
      "l", ",", "\"", "a", "r", "g", "s", "\"", ":", "{", "}", ",", "\"",
      "c", "o", "n", "f", "i", "d", "e", "n", "c", "e", "\"", ":", "0", ".",
      "9", "}">>
P_calc ==
    <<"{", "\"", "r", "o", "u", "t", "e", "\"", ":", "\"", "t", "o", "o",
      "l", "\"", ",", "\"", "t", "o", "o", "l", "\"", ":", "\"", "c", "a",
      "l", "c", "\"", ",", "\"", "a", "r", "g", "s", "\"", ":", "{", "\"",
      "e", "x", "p", "r", "\"", ":", "\"", "1", "+", "1", "\"", "}", ",",
      "\"", "c", "o", "n", "f", "i", "d", "e", "n", "c", "e", "\"", ":", "0",
      ".", "9", "}">>
P_tool_null ==
    <<"{", "\"", "r", "o", "u", "t", "e", "\"", ":", "\"", "T", "o", "o",
      "l", "\"", ",", "\"", "t", "o", "o", "l", "\"", ":", "n", "u", "l",
      "l", ",", "\"", "c", "o", "n", "f", "i", "d", "e", "n", "c", "e", "\"",
      ":", "0", ".", "6", "}">>
P_tool_list ==
    <<"{", "\"", "r", "o", "u", "t", "e", "\"", ":", "\"", "t", "o", "o",
      "l", "\"", ",", "\"", "t", "o", "o", "l", "\"", ":", "[", "\"", "c",
      "a", "l", "c", "\"", "]", ",", "\"", "a", "r", "g", "s", "\"", ":",
      "{", "}", ",", "\"", "c", "o", "n", "f", "i", "d", "e", "n", "c", "e",
      "\"", ":", "0", ".", "9", "}">>
P_path_num ==
    <<"{", "\"", "r", "o", "u", "t", "e", "\"", ":", "\"", "t", "o", "o",
      "l", "\"", ",", "\"", "t", "o", "o", "l", "\"", ":", "\"", "r", "e",
      "a", "d", "_", "f", "i", "l", "e", "\"", ",", "\"", "a", "r", "g", "s",
      "\"", ":", "{", "\"", "p", "a", "t", "h", "\"", ":", "5", "}", ",",
      "\"", "c", "o", "n", "f", "i", "d", "e", "n", "c", "e", "\"", ":", "1",
      "}">>
P_low ==
    <<"{", "\"", "r", "o", "u", "t", "e", "\"", ":", "\"", "t", "o", "o",
      "l", "\"", ",", "\"", "t", "o", "o", "l", "\"", ":", "\"", "c", "a",
      "l", "c", "\"", ",", "\"", "a", "r", "g", "s", "\"", ":", "{", "\"",
      "e", "x", "p", "r", "\"", ":", "\"", "1", "\"", "}", ",", "\"", "c",
      "o", "n", "f", "i", "d", "e", "n", "c", "e", "\"", ":", "0", ".", "5",
      "9", "}">>
P_chat_str ==
    <<"{", "\"", "r", "o", "u", "t", "e", "\"", ":", "\"", "c", "h", "a",
      "t", "\"", ",", "\"", "c", "o", "n", "f", "i", "d", "e", "n", "c", "e",
      "\"", ":", "\"", "0", ".", "6", "\"", "}">>
P_prose ==
    <<"S", "u", "r", "e", ":", " ", "{", "\"", "r", "o", "u", "t", "e", "\"",
      ":", "\"", "t", "o", "o", "l", "\"", ",", "\"", "t", "o", "o", "l",
      "\"", ":", "\"", "r", "e", "a", "d", "_", "f", "i", "l", "e", "\"",
      ",", "\"", "a", "r", "g", "s", "\"", ":", "{", "\"", "p", "a", "t",
      "h", "\"", ":", "\"", "x", "\"", "}", ",", "\"", "c", "o", "n", "f",
      "i", "d", "e", "n", "c", "e", "\"", ":", "0", ".", "7", "}", " ", "o",
      "k">>
P_no_expr ==
    <<"{", "\"", "r", "o", "u", "t", "e", "\"", ":", "\"", "t", "o", "o",
      "l", "\"", ",", "\"", "t", "o", "o", "l", "\"", ":", "\"", "c", "a",
      "l", "c", "\"", ",", "\"", "a", "r", "g", "s", "\"", ":", "{", "}",
      ",", "\"", "c", "o", "n", "f", "i", "d", "e", "n", "c", "e", "\"", ":",
      "0", ".", "9", "}">>
P_none ==
    <<"I", " ", "c", "a", "n", "n", "o", "t">>
P_unknown ==
    <<"{", "\"", "r", "o", "u", "t", "e", "\"", ":", "\"", "t", "o", "o",
      "l", "\"", ",", "\"", "t", "o", "o", "l", "\"", ":", "\"", "n", "o",
      "p", "e", "\"", ",", "\"", "c", "o", "n", "f", "i", "d", "e", "n", "c",
      "e", "\"", ":", "t", "r", "u", "e", "}">>
PlannerRaws ==
    { P_chat, P_calc, P_tool_null, P_tool_list,
      P_path_num, P_low, P_chat_str, P_prose,
      P_no_expr, P_none, P_unknown }

\* what the chat call and the fallback call may answer
A_empty == <<>>
A_prose ==
    <<"S", "u", "r", "e", ".", "\n">>
A_final ==
    <<" ", "{", "\"", "f", "i", "n", "a", "l", "\"", ":", "\"", "o", "k",
      "\"", "}">>
A_both ==
    <<"{", "\"", "t", "o", "o", "l", "\"", ":", "\"", "c", "a", "l", "c",
      "\"", ",", "\"", "a", "r", "g", "s", "\"", ":", "{", "\"", "e", "x",
      "p", "r", "\"", ":", "\"", "1", "\"", "}", ",", "\"", "f", "i", "n",
      "a", "l", "\"", ":", "\"", "x", "\"", "}">>
A_args_str ==
    <<"{", "\"", "t", "o", "o", "l", "\"", ":", "\"", "r", "e", "a", "d",
      "_", "f", "i", "l", "e", "\"", ",", "\"", "a", "r", "g", "s", "\"",
      ":", "\"", "n", "o", "t", "e", "s", ".", "t", "x", "t", "\"", "}">>
A_tool_list ==
    <<"{", "\"", "t", "o", "o", "l", "\"", ":", "[", "\"", "x", "\"", "]",
      "}">>
A_nope ==
    <<"{", "\"", "t", "o", "o", "l", "\"", ":", "\"", "n", "o", "p", "e",
      "\"", "}">>
A_final_num ==
    <<"{", "\"", "f", "i", "n", "a", "l", "\"", ":", "5", "}">>
A_path_num ==
    <<"{", "\"", "t", "o", "o", "l", "\"", ":", "\"", "r", "e", "a", "d",
      "_", "f", "i", "l", "e", "\"", ",", "\"", "a", "r", "g", "s", "\"",
      ":", "{", "\"", "p", "a", "t", "h", "\"", ":", "5", "}", "}">>
A_other ==
    <<"{", "\"", "x", "\"", ":", "1", "}">>
A_list ==
    <<"[", "1", "]">>
A_write ==
    <<"{", "\"", "t", "o", "o", "l", "\"", ":", "\"", "w", "r", "i", "t",
      "e", "_", "f", "i", "l", "e", "\"", ",", "\"", "a", "r", "g", "s",
      "\"", ":", "{", "\"", "p", "a", "t", "h", "\"", ":", "\"", "x", "\"",
      ",", "\"", "t", "e", "x", "t", "\"", ":", "\"", "y", "o", "\"", "}",
      "}">>
ReplyRaws ==
    { A_empty, A_prose, A_final, A_both,
      A_args_str, A_tool_list, A_nope, A_final_num,
      A_path_num, A_other, A_list, A_write }

VARIABLES
    exText,     \* the text handed to extract_last_json_dict
    exLast,     \* what it returned
    exDone,     \* it has returned
    tFiles,     \* the disk: absolute path -> content
    tPhase,     \* "idle" before the tool call, "done" after
    tCall,      \* the call made: program, tool, args, disk before
    tOut,       \* its outcome: raised, val
    tOpened,    \* the absolute paths the call opened
    tEval,      \* the expression the call handed to eval(), None if none
    lInput,     \* tools_loop.run_query: the argument q
    lPc,        \* "start", "planning" (at the head of the for loop), "done"
    lq,         \* q after the forced-agent prefix is removed
    lMsgs,      \* msgs
    lIter,      \* iterations of the for loop completed
    lLast,      \* last_tool_result
    lFiles,     \* the disk
    lRet,       \* the value returned
    lVia,       \* the return statement taken
    lCalls,     \* calls of llm() made
    lUnparsed,  \* whether every response so far held no parseable JSON object
    lToolRuns,  \* tools run by the for loop
    lBoot,      \* the result of the bootstrap read, None if there was none
    lFinal,     \* the "final" value of the response returned on
    rPc,        \* agent.py: "idle" at the prompt, "returned" after run_query
    rKnown,     \* known_files
    rFiles,     \* the disk
    rInput,     \* the request just answered
    rPlan,      \* the planner's text for it
    rBranch,    \* the branch of run_query that answered
    rLlm,       \* the llm() calls it made, in order
    rAuto,      \* the autowrap_to_action calls it made, in order
    rRan,       \* the tools it ran, in order
    rOut,       \* its outcome: raised, val
    rKnown0     \* known_files when it was called

exVars == <<exText, exLast, exDone>>
toolVars == <<tFiles, tPhase, tCall, tOut, tOpened, tEval>>
loopVars == <<lInput, lPc, lq, lMsgs, lIter, lLast, lFiles, lRet, lVia, lCalls,
              lUnparsed, lToolRuns, lBoot, lFinal>>
routerVars == <<rPc, rKnown, rFiles, rInput, rPlan, rBranch, rLlm, rAuto, rRan,
                rOut, rKnown0>>
vars == <<exVars, toolVars, loopVars, routerVars>>

NoCall == [prog |-> "none"]
NoOut == [raised |-> FALSE, val |-> <<>>]

ExIdle == exText = <<>> /\ exLast = None /\ exDone = FALSE
ToolsIdle ==
    /\ tFiles = DiskA /\ tPhase = "idle" /\ tCall = NoCall /\ tOut = NoOut
    /\ tOpened = {} /\ tEval = None
RouterIdle ==
    /\ rPc = "off" /\ rKnown = {} /\ rFiles = <<>> /\ rInput = <<>>
    /\ rPlan = <<>> /\ rBranch = "none" /\ rLlm = <<>> /\ rAuto = <<>>
    /\ rRan = <<>> /\ rOut = NoOut /\ rKnown0 = {}
LoopIdle ==
    /\ lInput = <<>> /\ lPc = "idle" /\ lq = <<>> /\ lMsgs = <<>> /\ lIter = 0
    /\ lLast = None /\ lFiles = <<>> /\ lRet = <<>> /\ lVia = "none"
    /\ lCalls = 0 /\ lUnparsed = TRUE /\ lToolRuns = 0 /\ lBoot = None
    /\ lFinal = None

(***************************************************************************)
(* ProtocolExtractor applied to one text                                   *)
(***************************************************************************)
InitExtract ==
    /\ exText \in ExTexts /\ exLast = None /\ exDone = FALSE
    /\ ToolsIdle /\ LoopIdle /\ RouterIdle

Extract ==
    /\ ~exDone
    /\ exLast' = extract_last_json_dict(exText)
    /\ exDone' = TRUE
    /\ UNCHANGED <<exText, toolVars, loopVars, routerVars>>

NextExtract == Extract
SpecExtract == InitExtract /\ [][NextExtract]_vars

(***************************************************************************)
(* One tool call, through the TOOLS table of agent.py or through run_tool  *)
(* of tools_loop.py                                                        *)
(***************************************************************************)
InitTools ==
    /\ tFiles \in {DiskA, DiskB}
    /\ tPhase = "idle" /\ tCall = NoCall /\ tOut = NoOut
    /\ tOpened = {} /\ tEval = None
    /\ ExIdle /\ LoopIdle /\ RouterIdle

\* the call's outcome becomes the state
Called(prog, tool, args, ev, r) ==
    /\ tPhase' = "done"
    /\ tCall' = [prog |-> prog, tool |-> tool, args |-> args, ev |-> ev,
                 files |-> tFiles]
    /\ tOut' = [raised |-> r.raised, val |-> r.val]
    /\ tFiles' = r.files
    /\ tOpened' = r.opened
    /\ tEval' = r.evaluated
    /\ UNCHANGED <<exVars, loopVars, routerVars>>


AgentReadFile ==
    /\ tPhase = "idle"
    /\ \E path \in PathStrs :
           LET args == Obj1(K_path, JStr(path))
           IN  Called("agent", JStr(T_read_file), args, NoEval,
                      agent_read_file(tFiles, args))

AgentWriteFile ==
    /\ tPhase = "idle"
    /\ \E path \in PathStrs, text \in WriteTexts :
           LET args == Obj2(K_path, JStr(path), K_text, JStr(text))
           IN  Called("agent", JStr(T_write_file), args, NoEval,
                      agent_write_file(tFiles, args))

AgentCalc ==
    /\ tPhase = "idle"
    /\ \E expr \in ExprStrs, ev \in EvalOutcomes :
           LET args == Obj1(K_expr, JStr(expr))
           IN  Called("agent", JStr(T_calc), args, ev, agent_calc(tFiles, args, ev))

AgentFindNumber ==
    /\ tPhase = "idle"
    /\ \E text \in NumberTexts :
           LET args == Obj1(K_text, JStr(text))
           IN  Called("agent", JStr(T_find_number), args, NoEval,
                      agent_find_number(tFiles, args))

\* a directive's args handed to a tool of agent.py as they are
AgentOddCall ==
    /\ tPhase = "idle"
    /\ \E t \in ToolNames, args \in OddArgMaps \cup OddValues, ev \in EvalOutcomes :
           Called("agent", JStr(t), args, ev, agent_call(t, tFiles, args, ev))

RunToolPath ==
    /\ tPhase = "idle"
    /\ \E path \in PathStrs, text \in WriteTexts, n \in {T_read_file, T_write_file} :
           LET args == IF n = T_read_file THEN Obj1(K_path, JStr(path))
                       ELSE Obj2(K_path, JStr(path), K_text, JStr(text))
           IN  Called("loop", JStr(n), args, NoEval,
                      run_tool(JStr(n), args, tFiles, NoEval))

RunToolCalc ==
    /\ tPhase = "idle"
    /\ \E expr \in ExprStrs, ev \in EvalOutcomes :
           LET args == Obj1(K_expr, JStr(expr))
           IN  Called("loop", JStr(T_calc), args, ev,
                      run_tool(JStr(T_calc), args, tFiles, ev))

RunToolFindNumber ==
    /\ tPhase = "idle"
    /\ \E text \in NumberTexts :
           LET args == Obj1(K_text, JStr(text))
           IN  Called("loop", JStr(T_find_number), args, NoEval,
                      run_tool(JStr(T_find_number), args, tFiles, NoEval))

RunToolOdd ==
    /\ tPhase = "idle"
    /\ \E n \in CallNames, args \in OddArgMaps, ev \in EvalOutcomes :
           Called("loop", n, args, ev, run_tool(n, args, tFiles, ev))

NextTools ==
    \/ AgentReadFile \/ AgentWriteFile \/ AgentCalc \/ AgentFindNumber
    \/ AgentOddCall
    \/ RunToolPath \/ RunToolCalc \/ RunToolFindNumber \/ RunToolOdd
SpecTools == InitTools /\ [][NextTools]_vars

(***************************************************************************)
(* tools_loop.run_query: one call, the model's responses chosen freely     *)
(***************************************************************************)
\* the model emits directives other than a final answer freely in its first
\* MaxDirectiveTurns responses of a run; later ones are unparseable or final,
\* or they continue a run in which the model has done nothing else than
\* repeat one tool call, or nothing else than answer with objects that are
\* neither a tool call nor a final answer
MaxDirectiveTurns == 2

LoopQueries == {Q_sum, Q_show, Q_what, Q_what_missing, Q_forced, Q_fix, Q_open}
LoopRaws ==
    { R_prose, R_empty, R_final, R_final_num, R_final_null, R_args_str,
      R_read_a, R_read_e, R_nope, R_write, R_both }
LoopDisk ==
    (F_a_txt :> C_Hello) @@ (F_e_txt :> <<>>) @@ (F_notes_txt :> C_n)

InitLoop ==
    /\ lInput \in LoopQueries
    /\ lPc = "start"
    /\ lq = <<>> /\ lMsgs = <<>> /\ lIter = 0 /\ lLast = None
    /\ lFiles = LoopDisk
    /\ lRet = <<>> /\ lVia = "none"
    /\ lCalls = 0 /\ lUnparsed = TRUE /\ lToolRuns = 0 /\ lBoot = None
    /\ lFinal = None
    /\ ExIdle /\ ToolsIdle /\ RouterIdle

\* lines 137-147: the deterministic layer answers
BeginDeterministic ==
    /\ lPc = "start"
    /\ \E q \in {StripPrefix(lInput)} :
       \E det \in {IF ENABLE_DETERMINISTIC /\ ~ForcedAgent(lInput)
                    THEN deterministic_execute(q, lFiles) ELSE None} :
           /\ det /= None
           /\ lq' = q
           /\ lRet' = det.s
           /\ lVia' = "deterministic"
           /\ lPc' = "done"
    /\ UNCHANGED <<lInput, lMsgs, lIter, lLast, lFiles, lCalls, lUnparsed,
                   lToolRuns, lBoot, lFinal, exVars, toolVars, routerVars>>

\* lines 137-160: the conversation is set up, with the bootstrap read
BeginLoop ==
    /\ lPc = "start"
    /\ \E q \in {StripPrefix(lInput)} :
       \E det \in {IF ENABLE_DETERMINISTIC /\ ~ForcedAgent(lInput)
                    THEN deterministic_execute(q, lFiles) ELSE None} :
       \E path \in {BootstrapPath(q, ForcedAgent(lInput), lFiles)} :
       \E msgs \in {<< Msg("system", strip(SYSTEM)), Msg("user", q) >>} :
       \E boot \in {IF path = None THEN [msgs |-> msgs, r |-> None, ran |-> FALSE]
                     ELSE bootstrap_file_read(msgs, path, lFiles)} :
           /\ det = None
           /\ lq' = q
           /\ lMsgs' = boot.msgs
           /\ lBoot' = IF boot.ran THEN boot.r ELSE None
           /\ lLast' = None
           /\ lPc' = "planning"
    /\ UNCHANGED <<lInput, lIter, lFiles, lRet, lVia, lCalls, lUnparsed,
                   lToolRuns, lFinal, exVars, toolVars, routerVars>>

\* data of lines 162-163, for each response
DataOf == [raw \in LoopRaws |-> extract_last_json_dict(strip(raw))]
TurnData(raw) == DataOf[raw]
\* args of line 170
TurnArgs(data) ==
    IF IsDict(DictGet(data, K_args)) THEN DictGet(data, K_args) ELSE None
\* the test of line 173
IsToolCall(data) == Truthy(DictGet(data, K_tool)) /\ TurnArgs(data) /= None

\* the length of msgs when the for loop begins: the system and the user
\* message, and the two messages of the bootstrap read
LoopBase == IF lBoot = None THEN 2 ELSE 4

\* every response so far was this tool call
RepeatsToolCall(tool, args) ==
    /\ lIter >= 1 /\ lToolRuns = lIter
    /\ \A k \in DOMAIN lMsgs :
           k > LoopBase /\ lMsgs[k].role = "assistant"
               => lMsgs[k].content = DumpDirective(tool, args)

\* every response so far was an object that is neither: msgs is as it was
\* when the loop began
OnlyNeitherSoFar ==
    /\ lIter >= 1 /\ Len(lMsgs) = LoopBase

\* lines 162-167: no directive, the corrective message is appended
TurnCorrective ==
    /\ lPc = "planning" /\ lIter < LoopLimit
    /\ \E raw \in LoopRaws :
           /\ ~Truthy(TurnData(raw))
           /\ lUnparsed' = (lUnparsed /\ TurnData(raw) = None)
    /\ lMsgs' = Append(lMsgs, Msg("user", S_corrective))
    /\ lIter' = lIter + 1
    /\ lCalls' = lCalls + 1
    /\ UNCHANGED <<lInput, lPc, lq, lLast, lFiles, lRet, lVia, lToolRuns, lBoot,
                   lFinal, exVars, toolVars, routerVars>>

\* lines 162-178: a tool call is run and its result appended
TurnTool ==
    /\ lPc = "planning" /\ lIter < LoopLimit
    /\ \E raw \in LoopRaws :
       \E data \in {TurnData(raw)} :
           /\ Truthy(data)
           /\ IsToolCall(data)
           /\ \E tool \in {DictGet(data, K_tool)} :
              \E args \in {TurnArgs(data)} :
              \E r \in {run_tool(tool, args, lFiles, NoEval)} :
               /\ lIter < MaxDirectiveTurns \/ RepeatsToolCall(tool, args)
               /\ lMsgs' = lMsgs \o
                      << Msg("assistant", DumpDirective(tool, args)),
                         Msg("system", S_TOOL_RESULT_colon \o r.val) >>
               /\ lLast' = JStr(r.val)
               /\ lFiles' = r.files
    /\ lIter' = lIter + 1
    /\ lCalls' = lCalls + 1
    /\ lUnparsed' = FALSE
    /\ lToolRuns' = lToolRuns + 1
    /\ UNCHANGED <<lInput, lPc, lq, lRet, lVia, lBoot, lFinal,
                   exVars, toolVars, routerVars>>

\* lines 162-185: a final answer ends the call
TurnFinal ==
    /\ lPc = "planning" /\ lIter < LoopLimit
    /\ \E raw \in LoopRaws :
           LET data == TurnData(raw)
               final == DictGet(data, K_final)
           IN  /\ Truthy(data)
               /\ ~IsToolCall(data)
               /\ final /= None
               /\ lFinal' = final
               /\ IF is_read_intent(lq) /\ lLast /= None
                  THEN lRet' = TrustedResult(lLast) /\ lVia' = "trusted"
                  ELSE lRet' = PyStr(final) /\ lVia' = "final"
    /\ lPc' = "done"
    /\ lCalls' = lCalls + 1
    /\ lUnparsed' = FALSE
    /\ UNCHANGED <<lInput, lq, lMsgs, lIter, lLast, lFiles, lToolRuns,
                   lBoot, exVars, toolVars, routerVars>>

\* lines 162-180: an object that is neither; nothing is appended
TurnNeither ==
    /\ lPc = "planning" /\ lIter < LoopLimit
    /\ lIter < MaxDirectiveTurns \/ OnlyNeitherSoFar
    /\ \E raw \in LoopRaws :
           LET data == TurnData(raw)
           IN  /\ Truthy(data)
               /\ ~IsToolCall(data)
               /\ DictGet(data, K_final) = None
    /\ lIter' = lIter + 1
    /\ lCalls' = lCalls + 1
    /\ lUnparsed' = FALSE
    /\ UNCHANGED <<lInput, lPc, lq, lMsgs, lLast, lFiles, lRet, lVia,
                   lToolRuns, lBoot, lFinal, exVars, toolVars, routerVars>>

\* lines 187-188: the for loop is exhausted
Exhaust ==
    /\ lPc = "planning" /\ lIter = LoopLimit
    /\ lRet' = S_loop_limit
    /\ lVia' = "exhausted"
    /\ lPc' = "done"
    /\ UNCHANGED <<lInput, lq, lMsgs, lIter, lLast, lFiles, lCalls, lUnparsed,
                   lToolRuns, lBoot, lFinal, exVars, toolVars, routerVars>>

NextLoop ==
    \/ BeginDeterministic \/ BeginLoop
    \/ TurnCorrective \/ TurnTool \/ TurnFinal \/ TurnNeither
    \/ Exhaust
SpecLoop == InitLoop /\ [][NextLoop]_vars

(***************************************************************************)
(* agent.py: the prompt loop, one run_query per request; known_files and   *)
(* the disk last from one request to the next                              *)
(***************************************************************************)
InitRouter ==
    /\ rPc = "idle"
    /\ rKnown = {}
    /\ rFiles = DiskB
    /\ rInput = <<>> /\ rPlan = <<>> /\ rBranch = "none" /\ rLlm = <<>>
    /\ rAuto = <<>> /\ rRan = <<>> /\ rOut = NoOut /\ rKnown0 = {}
    /\ ExIdle /\ ToolsIdle /\ LoopIdle

\* run_query(input) has gone through branch, as run r
Returns(input, plan_raw, r) ==
    /\ rPc' = "returned"
    /\ rInput' = input
    /\ rPlan' = plan_raw
    /\ rBranch' = r.branch
    /\ rLlm' = r.llm
    /\ rAuto' = r.auto
    /\ rRan' = r.out.ran
    /\ rOut' = [raised |-> r.out.raised, val |-> r.out.val]
    /\ rKnown0' = rKnown
    /\ rKnown' = r.known
    /\ rFiles' = r.out.files
    /\ UNCHANGED <<exVars, toolVars, loopVars>>

\* whether run_query(input) calls llm() at all, and whether it calls the
\* planner: a direct command calls neither, the chat sentinel no planner
CallsModel(input) == handle_direct_command(strip(input)) = None
CallsPlanner(input) ==
    CallsModel(input) /\ ~startswith(strip(input), SENTINEL_CHAT)

\* lines 226-314: run_query answers one request; the texts the model returns
\* are chosen freely among PlannerRaws and ReplyRaws
RunQuery ==
    /\ rPc = "idle"
    /\ \E input \in RouterInputs :
       \E plan_raw \in IF CallsPlanner(input) THEN PlannerRaws ELSE {<<>>} :
       \E reply \in IF CallsModel(input) THEN ReplyRaws ELSE {<<>>} :
       \E r \in run_query(input, rKnown, rFiles, plan_raw, reply) :
           Returns(input, plan_raw, r)

\* lines 321-328: the answer is printed and the next request is read; an
\* exception out of run_query ends the process
NextRequest ==
    /\ rPc = "returned"
    /\ ~rOut.raised
    /\ rPc' = "idle"
    /\ rInput' = <<>> /\ rPlan' = <<>> /\ rBranch' = "none" /\ rLlm' = <<>>
    /\ rAuto' = <<>> /\ rRan' = <<>> /\ rOut' = NoOut /\ rKnown0' = {}
    /\ UNCHANGED <<rKnown, rFiles, exVars, toolVars, loopVars>>

NextRouter ==
    \/ RunQuery
    \/ NextRequest

SpecRouter == InitRouter /\ [][NextRouter]_vars

(***************************************************************************)
(* Claims about the router pipeline (under SpecRouter)                     *)
(***************************************************************************)
\* C7: agent.run_query resolves every request to a returned string and never
\* raises, whatever the planner and the fallback model answer.
C7_AlwaysReturnsString ==
    rPc = "returned" => ~rOut.raised /\ IsStr(rOut.val)

\* the autowrap_to_action calls of the request just answered
AutoCalls == {rAuto[k] : k \in DOMAIN rAuto}

\* C8: every directive autowrap_to_action returns holds exactly one of the
\* keys "tool" and "final".
C8_ExactlyOneKey ==
    \A c \in AutoCalls :
        (K_tool \in DOMAIN c.data.o) /= (K_final \in DOMAIN c.data.o)

\* name stands in up between two word boundaries, whatever its case
C9Mentions(up, name) ==
    \E i \in 1..(Len(up) - Len(name) + 1) :
        /\ lower(SubSeq(up, i, i + Len(name) - 1)) = name
        /\ IsWordAt(up, i - 1) /= IsWordAt(up, i)
        /\ IsWordAt(up, i + Len(name) - 1) /= IsWordAt(up, i + Len(name))

\* the raw text of the call is a pass-through directive
C9PassThrough(c) ==
    /\ json_loads(strip(c.raw)).ok
    /\ json_loads(strip(c.raw)).v.t = "obj"
    /\ (K_tool \in DOMAIN json_loads(strip(c.raw)).v.o
        \/ K_final \in DOMAIN json_loads(strip(c.raw)).v.o)

\* C9 as stated: a call whose raw text is no pass-through directive and
\* whose request mentions a name remembered from an earlier request returns
\* the read_file directive for that name, by the known-file recall rule.
C9_KnownFileRecall ==
    \A c \in AutoCalls : \A name \in c.before :
        ~C9PassThrough(c) /\ C9Mentions(c.up, name)
            => c.rule = "known-file" /\ c.data = ReadDirective(name)

\* C9, amended: such a call, when its request holds no explicit path literal,
\* returns by the known-file recall rule a read_file directive whose path is
\* a remembered lower-cased name the request mentions: the name itself when
\* the request mentions no other.
C9_KnownFileRecallAfterPath ==
    \A c \in AutoCalls : \A name \in c.before :
        ~C9PassThrough(c) /\ C9Mentions(c.up, name) /\ PATH_RE_search(c.up) = None
            => /\ c.rule = "known-file"
               /\ c.data \in {ReadDirective(n) :
                                 n \in {m \in c.after : C9Mentions(c.up, m)}}
               /\ name = lower(name)

\* a later request names, in another case, a file an earlier one declared,
\* and the recall rule returns the remembered name
C9_Witness ==
    /\ rPc = "returned"
    /\ \E c \in AutoCalls :
           /\ <<"n", "o", "t", "e", "s">> \in c.before
           /\ c.up = I_show_notes
           /\ c.rule = "known-file"
           /\ c.data = ReadDirective(<<"n", "o", "t", "e", "s">>)

(***************************************************************************)
(* Claims about the agent loop (under SpecLoop)                            *)
(***************************************************************************)
Returned == lPc = "done"
\* the call went through the for loop and ended on a final answer
ReturnedOnFinal == Returned /\ lVia \in {"final", "trusted"}
ReadIntent == is_read_intent(lq)

\* C1: a call that no layer before the loop answers or seeds (no deterministic
\* answer, no bootstrap read) and in which every response of the model held no
\* parseable JSON object returns "ERROR: exceeded tool loop limit" after
\* exactly 40 calls of the model, and has run no tool; it does not return
\* before the 40th call.
C1_LoopExhaustion ==
    /\ (Returned /\ lVia /= "deterministic" /\ lBoot = None /\ lUnparsed) =>
           /\ lRet = S_loop_limit
           /\ lCalls = 40
           /\ lToolRuns = 0
    /\ (lPc = "planning" /\ lUnparsed) => (lCalls <= 40 /\ lToolRuns = 0)
    /\ (lPc = "planning" /\ lUnparsed /\ lCalls = 40) => ENABLED Exhaust

\* the 40th unparseable response has been received and the call has returned
C1_Witness ==
    /\ Returned /\ lVia = "exhausted" /\ lBoot = None /\ lUnparsed
    /\ lCalls = 40 /\ lRet = S_loop_limit

\* C2: whenever the request expresses read intent and a tool has produced a
\* result earlier in the call, through a tool-call turn or through the
\* bootstrap read, a final answer makes the loop return the tool's result
\* (the trusted return of line 183) and not the model's final text.
C2_TrustOverrideTrigger ==
    (ReturnedOnFinal /\ ReadIntent /\ (lToolRuns > 0 \/ lBoot /= None)) =>
        lVia = "trusted"

\* the result in the most recent TOOL_RESULT message the for loop appended
\* (the first two messages are the system prompt and the request; a bootstrap
\* read, when there is one, appended the next two)
LoopMessagesFrom == IF lBoot = None THEN 3 ELSE 5
MostRecentResult ==
    LET ks == {k \in LoopMessagesFrom..Len(lMsgs) : lMsgs[k].role = "system"}
        k == CHOOSE x \in ks : \A m \in ks : m <= x
    IN  Slice(lMsgs[k].content, Len(S_TOOL_RESULT_colon) + 1,
              Len(lMsgs[k].content))
\* the override fires: read intent, and a tool-call turn recorded a result
OverrideFires == ReadIntent /\ lToolRuns > 0

\* C3 as stated: when the override fires the returned string is
\* character for character the result of the most recently executed tool,
\* whatever that string is (an empty one too); when it does not fire the
\* returned string is the model's final text.
C3_TrustOverrideVerbatim ==
    ReturnedOnFinal =>
        lRet = IF OverrideFires THEN MostRecentResult ELSE PyStr(lFinal)

\* C3: when the override fires (read intent, and a tool-call turn of this
\* call recorded a result) the returned string is the result of the most
\* recently executed tool if that result is not empty, and "[empty file]" if it
\* is empty; when it does not fire the returned string is str() of the
\* model's final value.
C3_TrustOverrideValue ==
    ReturnedOnFinal =>
        lRet = IF OverrideFires
               THEN (IF MostRecentResult = <<>> THEN S_empty_file
                     ELSE MostRecentResult)
               ELSE PyStr(lFinal)

\* the override fired on an empty tool result
C3_Witness ==
    /\ ReturnedOnFinal /\ OverrideFires /\ MostRecentResult = <<>>
    /\ lRet = S_empty_file

(***************************************************************************)
(* Claims about the tools                                                  *)
(***************************************************************************)
ErrorPrefix == <<"E", "R", "R", "O", "R", ":">>
IsErrorResult(out) == ~out.raised /\ startswith(out.val, ErrorPrefix)

\* the call was read_file or write_file with a string as its path
IsPathCall ==
    /\ tPhase = "done"
    /\ tCall.tool \in {JStr(T_read_file), JStr(T_write_file)}
    /\ IsDict(tCall.args)
    /\ K_path \in DOMAIN tCall.args.o
    /\ IsStr(tCall.args.o[K_path])
    /\ tCall.prog = "loop" =>
           DOMAIN tCall.args.o =
               (IF tCall.tool = JStr(T_read_file) THEN {K_path} ELSE {K_path, K_text})

\* the absolute path the call's path argument resolves to
CallAbsPath == abspath(path_join(ROOT, tCall.args.o[K_path].s))

\* C4: read_file and write_file never open a file whose resolved absolute
\* path lies outside the project root's directory tree, never change a file
\* outside it, and answer every such path with an error result.
C4_SandboxInvariant ==
    IsPathCall =>
        /\ \A p \in tOpened : InsideRoot(p)
        /\ \A f \in DOMAIN tFiles :
               ~InsideRoot(f) => f \in DOMAIN tCall.files /\ tFiles[f] = tCall.files[f]
        /\ ~InsideRoot(CallAbsPath) => IsErrorResult(tOut)

\* the characters the allow-list of calc admits
C5Allowed ==
    Digits \cup {"+", "-", "*", "/", "(", ")", ".", "^"} \cup {" ", "\n", "\t", "\r"}

\* the call was calc
IsCalcCall == tPhase = "done" /\ tCall.tool = JStr(T_calc)

\* the expression calc received is a string (agent.py takes str() of the
\* value of "expr", tools_loop.py takes the keyword argument itself)
CalcHasExpr ==
    /\ IsCalcCall
    /\ IsDict(tCall.args)
    /\ tCall.prog = "loop" =>
           DOMAIN tCall.args.o = {K_expr} /\ IsStr(tCall.args.o[K_expr])

CalcExpr ==
    IF tCall.prog = "agent"
    THEN PyStr(ArgsGet(tCall.args, K_expr, JStr(<<>>)))
    ELSE tCall.args.o[K_expr].s

\* C5: eval() is handed an expression only by calc and only when every
\* character of the expression is a digit, one of + - * / ( ) . ^ or
\* whitespace; an expression with any other character gets an error result
\* and is not evaluated.
C5_CalcAllowList ==
    /\ tEval /= None => CalcHasExpr
    /\ CalcHasExpr =>
           /\ tEval /= None =>
                  /\ \A k \in DOMAIN CalcExpr : CalcExpr[k] \in C5Allowed
                  /\ \A k \in DOMAIN tEval.s : tEval.s[k] \in C5Allowed
           /\ (\E k \in DOMAIN CalcExpr : CalcExpr[k] \notin C5Allowed)
                  => tEval = None /\ IsErrorResult(tOut)

\* an expression with a forbidden character after an allowed prefix was
\* rejected, and one of allowed characters with a newline was evaluated
C5_Witness ==
    /\ CalcHasExpr
    /\ \/ /\ CalcExpr = <<"1", "+", "a">>
          /\ tEval = None
          /\ IsErrorResult(tOut)
       \/ /\ CalcExpr = <<"1", "^", "\n">>
          /\ tEval = JStr(<<"1", "*", "*", "\n">>)

\* the parameters of each tool of tools_loop.py
C6Params(n) ==
    CASE n = T_read_file   -> {K_path}
      [] n = T_write_file  -> {K_path, K_text}
      [] n = T_calc        -> {K_expr}
      [] n = T_find_number -> {K_text}

\* a call through run_tool that fails: unknown tool, bad arguments, a path
\* the sandbox test rejects, a missing file or a target that cannot be
\* opened, an expression the allow-list rejects or eval() raises on, a text
\* without a number
C6Failure ==
    LET n == tCall.tool
        a == tCall.args.o
        p(k) == abspath(path_join(ROOT, a[k].s))
    IN  \/ ~IsStr(n)
        \/ n.s \notin ToolNames
        \/ DOMAIN a /= C6Params(n.s)
        \/ \E k \in DOMAIN a : ~IsStr(a[k])
        \/ /\ n.s \in {T_read_file, T_write_file}
           /\ ~startswith(p(K_path), ROOT)
        \/ /\ n.s = T_read_file
           /\ p(K_path) \notin DOMAIN tCall.files
        \/ /\ n.s = T_write_file
           /\ ~CanOpenForWrite(p(K_path))
        \/ /\ n.s = T_calc
           /\ \/ \E k \in DOMAIN a[K_expr].s : a[K_expr].s[k] \notin C5Allowed
              \/ tCall.ev.raised
        \/ /\ n.s = T_find_number
           /\ \A k \in DOMAIN a[K_text].s : a[K_text].s[k] \notin Digits

RECURSIVE BraceDepth(_, _)
\* the nesting depth after the first i characters; a } at depth 0 is ignored
BraceDepth(text, i) ==
    IF i = 0 THEN 0
    ELSE LET d == BraceDepth(text, i - 1)
         IN  IF text[i] = "{" THEN d + 1
             ELSE IF text[i] = "}" /\ d > 0 THEN d - 1
             ELSE d

\* the fragments that open at depth 0 and close back to depth 0
TopFragments(text) ==
    { fr \in (DOMAIN text) \X (DOMAIN text) :
        /\ fr[1] < fr[2]
        /\ text[fr[1]] = "{" /\ BraceDepth(text, fr[1] - 1) = 0
        /\ text[fr[2]] = "}" /\ BraceDepth(text, fr[2]) = 0
        /\ \A k \in fr[1]..(fr[2] - 1) : BraceDepth(text, k) > 0 }

\* those that parse as a JSON object
ObjectFragments(text) ==
    { fr \in TopFragments(text) :
        LET r == json_loads(SubSeq(text, fr[1], fr[2]))
        IN  r.ok /\ IsDict(r.v) }

\* C10: extract_last_json_dict returns the last fragment that opens at brace
\* depth 0, closes back to depth 0 and parses as a JSON object, whatever
\* fragments follow it; it returns None exactly when no fragment parses.
C10_LastWins ==
    exDone =>
        LET frs == ObjectFragments(exText)
        IN  IF frs = {} THEN exLast = None
            ELSE LET fr == CHOOSE f \in frs : \A g \in frs : g[2] <= f[2]
                 IN  /\ exLast /= None
                     /\ exLast = json_loads(SubSeq(exText, fr[1], fr[2])).v

\* two objects were followed by a balanced fragment that is no JSON, and the
\* second object was returned
C10_Witness ==
    /\ exDone
    /\ Cardinality(ObjectFragments(exText)) = 2
    /\ \E fr \in TopFragments(exText) \ ObjectFragments(exText) :
           \A g \in ObjectFragments(exText) : g[2] < fr[1]
    /\ exLast = JObj(<<"b">> :> JObj(<<>>))

\* the spans of text that are JSON objects
ObjectSpans(text) ==
    { fr \in (DOMAIN text) \X (DOMAIN text) :
        /\ fr[1] < fr[2]
        /\ text[fr[1]] = "{" /\ text[fr[2]] = "}"
        /\ LET r == json_loads(SubSeq(text, fr[1], fr[2]))
           IN  r.ok /\ IsDict(r.v) }

\* those that lie in no other one: the objects the text contains
OuterObjects(text) ==
    { fr \in ObjectSpans(text) :
        \A g \in ObjectSpans(text) :
            g[1] <= fr[1] /\ fr[2] <= g[2] => g = fr }

\* C11 as stated: when the text contains exactly one JSON object, with any
\* prose around it (stray braces included), extract_last_json_dict returns
\* that object.
C11_SingleObject ==
    exDone =>
        \A fr \in OuterObjects(exText) :
            OuterObjects(exText) = {fr}
                => exLast = json_loads(SubSeq(exText, fr[1], fr[2])).v

\* C11: when the text contains exactly one JSON object and that object opens
\* at brace depth 0 and closes back to depth 0 (no unclosed { in the prose
\* before it, no brace inside its strings), extract_last_json_dict returns
\* it, whatever stray } precede it and whatever stray braces follow it.
C11_SingleTopLevelObject ==
    exDone =>
        \A fr \in OuterObjects(exText) :
            OuterObjects(exText) = {fr} /\ fr \in TopFragments(exText)
                => exLast = json_loads(SubSeq(exText, fr[1], fr[2])).v

\* the one object stood between a stray } and a stray { and was returned
C11_Witness ==
    /\ exDone
    /\ Cardinality(OuterObjects(exText)) = 1
    /\ \E fr \in OuterObjects(exText) :
           /\ fr[1] = 2 /\ exText[1] = "}"
           /\ fr[2] = Len(exText) - 1 /\ exText[Len(exText)] = "{"
    /\ exLast = JObj(<<"a">> :> JNum(1, 0))

(***************************************************************************)
(* The two programs side by side: a behaviour is a session of agent.py or  *)
(* one call of tools_loop.run_query                                        *)
(***************************************************************************)
InitPrograms == InitRouter \/ InitLoop
NextPrograms == NextRouter \/ NextLoop
SpecPrograms == InitPrograms /\ [][NextPrograms]_vars

(***************************************************************************)
(* Claims about the deterministic short-circuit (under SpecPrograms)       *)
(***************************************************************************)
\* q matches one of the four command grammars of agent.py
C12Command(q) ==
    \/ WriteArgs(q) /= None
    \/ \E cmd \in {W_bang_read, W_bang_calc, W_bang_num} : DirectArg(q, cmd) /= None

\* the deterministic layer of tools_loop.py matches the request
C12Deterministic(input) ==
    /\ ~ForcedAgent(input)
    /\ SearchWords(input, {<<W_what, W_is, W_in>>})
    /\ Contains(input, S_txt)

\* C12: a request that matches a command grammar of agent.py (!read, !write,
\* !calc, !num) or the deterministic layer of tools_loop.py is answered with
\* no model call and exactly one tool call, and the value returned is that
\* call's outcome with nothing added (for tools_loop.py the text read_file
\* returned or, when it raised, its message as "[error: ...]"); neither the
\* planner, the heuristics, the bootstrap nor the agent loop takes part.
C12_ShortCircuit ==
    [][ /\ ( rPc = "idle" /\ rPc' = "returned" /\ C12Command(strip(rInput'))
               => LET call == handle_direct_command(strip(rInput'))
                  IN  /\ rBranch' = "direct"
                      /\ rLlm' = <<>> /\ rAuto' = <<>> /\ rKnown' = rKnown
                      /\ rRan' = <<[tool |-> call.tool, args |-> call.args]>>
                      /\ \E ev \in EvalOutcomes :
                           LET r == agent_call(call.tool, rFiles, call.args, ev)
                           IN  /\ ~r.raised
                               /\ rOut' = [raised |-> FALSE, val |-> JStr(r.val)]
                               /\ rFiles' = r.files )
        /\ ( lPc = "start" /\ lPc' /= "start" /\ C12Deterministic(lInput)
               => LET r == loop_read_file(lFiles, first_path_in(lInput))
                  IN  /\ lPc' = "done" /\ lVia' = "deterministic"
                      /\ lCalls' = 0 /\ lToolRuns' = 0 /\ lBoot' = None
                      /\ lMsgs' = <<>> /\ lIter' = 0 /\ lFiles' = lFiles
                      /\ lRet' = IF r.raised
                                 THEN S_error_open \o r.val \o <<"]">>
                                 ELSE r.val )
      ]_vars

\* "!write x <<< yo" was answered by write_file alone, its message returned
\* as it is and the file written
C12_Witness ==
    /\ rPc = "returned" /\ rInput = I_bang_write
    /\ rBranch = "direct" /\ rLlm = <<>>
    /\ Len(rRan) = 1 /\ rRan[1].tool = T_write_file
    /\ rOut.val = JStr(S_wrote \o <<"2">> \o S_chars_to \o <<"x", "]">>)
    /\ rFiles[<<"/", "p", "/", "x">>] = <<"y", "o">>

(***************************************************************************)
(* Further claims about the router pipeline (under SpecRouter)             *)
(***************************************************************************)
\* the request starts with "<|chat|>"
C13Chat(input) == startswith(input, <<"<", "|", "c", "h", "a", "t", "|", ">">>)

\* C13: a request that starts with the chat sentinel and is no direct command
\* is answered by one conversational llm() call, whose stripped text is the
\* answer: no planner call, no autowrap_to_action call, no tool, and
\* known_files and the disk as they were, whatever the request holds.
C13_ChatSentinel ==
    [][ rPc = "idle" /\ rPc' = "returned"
        /\ C13Chat(rInput') /\ ~C12Command(strip(rInput'))
          => /\ rLlm' = <<"chat">>
             /\ rAuto' = <<>> /\ rRan' = <<>>
             /\ rKnown' = rKnown /\ rFiles' = rFiles
             /\ ~rOut'.raised
             /\ \E reply \in ReplyRaws : rOut'.val = JStr(strip(reply))
      ]_vars

\* the chat request declared "x is a file", named the remembered notes and
\* the model's text was a write_file directive: that text was the answer
C13_Witness ==
    /\ rPc = "returned" /\ rInput = I_chat
    /\ Declared(strip(rInput)) = {<<"x">>}
    /\ <<"n", "o", "t", "e", "s">> \in rKnown0
    /\ rOut.val = JStr(A_write)
    /\ rLlm = <<"chat">> /\ rRan = <<>> /\ rKnown = rKnown0

\* the keys valid_tool_choice requires of the args of a whitelisted tool
C14Required(tool) ==
    CASE tool = T_read_file   -> {K_path}
      [] tool = T_write_file  -> {K_path, K_text}
      [] tool = T_calc        -> {K_expr}
      [] tool = T_find_number -> {K_text}

\* the planner's answer to the request names a tool that may be run directly:
\* route "tool" with confidence at least 0.6 (or the agent sentinel), a
\* whitelisted tool, and args holding every key the tool requires
C14Eligible(input, plan_raw) ==
    LET force == startswith(strip(input), SENTINEL_AGENT)
        p == Planned(plan_route(plan_raw), force)
    IN  /\ force \/ p.route = <<"t", "o", "o", "l">>
        /\ force \/ NumGeq(p.conf, JNum(6, 1))
        /\ IsStr(p.tool) /\ p.tool.s \in ToolNames
        /\ C14Required(p.tool.s) \subseteq DOMAIN p.args.o

\* C14: the tool the planner names is run directly exactly when the route is
\* "tool" (or the agent sentinel is active), the confidence is at least 0.6
\* (or the sentinel is active), the tool is whitelisted and the args hold
\* every required key; in every other case it is not run and the request goes
\* on to the confident chat or to the heuristics and the fallback, without
\* aborting.
C14_PlannerToolGate ==
    rPc = "returned" /\ rLlm /= <<>> /\ rLlm[1] = "planner" =>
        IF C14Eligible(rInput, rPlan)
        THEN /\ rBranch = "planner-tool"
             /\ Len(rRan) = 1
             /\ JStr(rRan[1].tool) = ArgsGet(plan_route(rPlan), K_tool, JNull)
        ELSE rBranch \in {"confident-chat", "heuristic-tool", "fallback-tool",
                          "fallback-final", "no-result"}

\* the text "[TOOL RESULT] "
C15Tag ==
    <<"[", "T", "O", "O", "L", " ", "R", "E", "S", "U", "L", "T", "]", " ">>

\* C15: when run_query runs a tool outside the direct commands (the planner's
\* confident choice, the heuristic first action or the fallback directive) and
\* the tool returns, run_query returns the result as it is for read_file and
\* "[TOOL RESULT] " followed by the result for every other tool.
C15_WrappingPolicy ==
    [][ rPc = "idle" /\ rPc' = "returned" /\ rBranch' /= "direct"
        /\ rRan' /= <<>> /\ ~rOut'.raised
          => /\ rBranch' \in {"planner-tool", "heuristic-tool", "fallback-tool"}
             /\ Len(rRan') = 1
             /\ \E ev \in EvalOutcomes :
                  LET tool == rRan'[1].tool
                      r == agent_call(tool, rFiles, rRan'[1].args, ev)
                  IN  /\ ~r.raised
                      /\ rFiles' = r.files
                      /\ rOut'.val = IF tool = T_read_file THEN JStr(r.val)
                                     ELSE JStr(C15Tag \o r.val)
      ]_vars

\* the planner's confident calc was run and its result came back tagged
C15_Witness ==
    /\ rPc = "returned" /\ rBranch = "planner-tool" /\ rPlan = P_calc
    /\ Len(rRan) = 1 /\ rRan[1].tool = T_calc
    /\ rOut = [raised |-> FALSE, val |-> JStr(C15Tag \o <<"4">>)]

(***************************************************************************)
(* Further claims about the agent loop                                     *)
(***************************************************************************)
\* lines 137-160 are left: the loop is entered or the deterministic layer
\* returns
LoopBegins == lPc = "start" /\ lPc' \in {"planning", "done"}
\* one passage of the for loop, or its end
LoopTurns == TurnCorrective \/ TurnTool \/ TurnFinal \/ TurnNeither \/ Exhaust

\* run_query is sequential code: as long as it has not returned, its next
\* step is taken (the call of llm() returns, whatever the text)
\* on a request the deterministic layer answers, one that is bootstrapped,
\* one with the forced-agent prefix and one that goes to the loop as it is
FairQueries == {Q_what, Q_show, Q_forced, Q_sum}
InitLoopFair == InitLoop /\ lInput \in FairQueries
SpecLoopFair ==
    InitLoopFair /\ [][NextLoop]_vars /\ WF_lPc(LoopBegins) /\ WF_vars(LoopTurns)

\* the "TOOL_RESULT: ..." messages of msgs: one for each tool that was run
C16ToolResults ==
    { k \in DOMAIN lMsgs :
        /\ lMsgs[k].role = "system"
        /\ startswith(lMsgs[k].content,
                      <<"T", "O", "O", "L", "_", "R", "E", "S", "U", "L", "T",
                        ":", " ">>) }

\* C16: whatever the model answers, tools_loop.run_query eventually returns,
\* having made at most 40 model calls and run at most 40 tools in the loop and
\* at most one bootstrap read before it, and it ends with a returned answer or
\* with the loop-exhaustion error.
C16_Termination ==
    <>( /\ lPc = "done"
        /\ lCalls <= 40 /\ lToolRuns <= 40
        /\ Cardinality(C16ToolResults) <= lToolRuns + 1
        /\ lBoot = None => Cardinality(C16ToolResults) = lToolRuns
        /\ \/ lVia \in {"deterministic", "final", "trusted"}
           \/ lVia = "exhausted" /\ lRet = S_loop_limit )

\* after a bootstrap read the model asked for the same tool 40 times: 40
\* model calls, 41 tools run, and the loop-exhaustion error returned
C16_Witness ==
    /\ lPc = "done" /\ lVia = "exhausted" /\ lRet = S_loop_limit
    /\ lCalls = 40 /\ lToolRuns = 40 /\ lBoot /= None
    /\ Cardinality(C16ToolResults) = 41

\* the request holds a token with an extension: path characters, a dot and
\* one to eight letters or digits
C17PathToken(up) ==
    \E a \in DOMAIN up : \E k \in (a + 1)..(Len(up) - 1) :
        /\ \A j \in a..(k - 1) : up[j] \in PathClass
        /\ up[k] = "." /\ up[k + 1] \in Alnum

\* the tokens of the request that name an existing file under ROOT
C17FileTokens(up, files) ==
    { n \in DOMAIN TokensFrom(up, 1) :
        isfile(files, path_join(ROOT, TokensFrom(up, 1)[n])) }

\* the request ends in a run of digits, operators, parentheses, dots and
\* whitespace that holds a digit: where the run begins, 0 if there is none
C17TailStart(up) ==
    LET runs == { i \in DOMAIN up :
                    /\ \A j \in i..Len(up) : up[j] \in ArithChars
                    /\ \E j \in i..Len(up) : up[j] \in Digits }
    IN  IF runs = {} THEN 0 ELSE Least(runs)

\* the first rule that applies to the call c made on the disk files
C17FirstRule(c, files) ==
    IF C9PassThrough(c) THEN "pass-through"
    ELSE IF C17PathToken(strip(c.up)) THEN "explicit-path"
    ELSE IF \E n \in c.after : C9Mentions(strip(c.up), n) THEN "known-file"
    ELSE IF C17FileTokens(strip(c.up), files) /= {} THEN "probe"
    ELSE IF C17TailStart(strip(c.up)) /= 0 THEN "arithmetic"
    ELSE "default"

\* the directive c returned is an outcome of the rule
C17Outcome(c, rule, files) ==
    LET up == strip(c.up)
        raw == strip(c.raw)
    IN  CASE rule = "pass-through" -> c.data = json_loads(raw).v
          [] rule = "explicit-path" ->
                 c.data = ReadDirective(RStripSet(PATH_RE_search(up).s,
                                                  TrailingPunct))
          [] rule = "known-file" ->
                 \E n \in c.after :
                     C9Mentions(up, n) /\ c.data = ReadDirective(n)
          [] rule = "probe" ->
                 c.data = ReadDirective(
                              TokensFrom(up, 1)[Least(C17FileTokens(up, files))])
          [] rule = "arithmetic" ->
                 c.data = CalcDirective(
                              strip(SubSeq(up, C17TailStart(up), Len(up))))
          [] rule = "default" ->
                 c.data = FinalDirective(IF raw = <<>> THEN S_no_output
                                         ELSE Take(raw, 4000))

\* C17: autowrap_to_action returns the outcome of the first rule that applies,
\* in the order pass-through, explicit path, known-file recall, filesystem
\* probe, arithmetic tail, default; so the calc directive of the arithmetic
\* tail is returned only when the raw text is no pass-through directive and
\* the request holds no token with an extension, mentions no remembered name
\* and holds no token naming an existing file, and the default final answer
\* only when in addition there is no arithmetic tail.
C17_RuleOrder ==
    [][ rPc = "idle" /\ rPc' = "returned"
          => \A k \in DOMAIN rAuto' :
                 /\ rAuto'[k].rule = C17FirstRule(rAuto'[k], rFiles)
                 /\ C17Outcome(rAuto'[k], rAuto'[k].rule, rFiles)
      ]_vars

\* "x 2+2" went to the heuristics with x on the disk: the probe answered, not
\* the arithmetic tail
C17_Witness ==
    /\ rPc = "returned" /\ rInput = I_x_sum
    /\ Len(rAuto) >= 1
    /\ rAuto[1].rule = "probe"
    /\ rAuto[1].data = ReadDirective(<<"x">>)
    /\ C17TailStart(strip(rAuto[1].up)) = 2

\* the lower-cased tokens of the "<token> is a file" occurrences of a request
C18Tokens(up) == DeclaredFrom(strip(up), 1)

\* C18: known_files never loses an element; every autowrap_to_action call
\* leaves it equal to what it was united with the lower-cased tokens of the
\* "<token> is a file" occurrences of the request, whichever rule answers;
\* and a run_query that makes no such call (a direct command, the chat
\* sentinel, the planner's confident valid tool, the confident chat) leaves
\* it as it was.
C18_SessionMemory ==
    [][ /\ rKnown \subseteq rKnown'
        /\ rPc = "idle" /\ rPc' = "returned" =>
             /\ \A k \in DOMAIN rAuto' :
                    /\ rAuto'[k].before = IF k = 1 THEN rKnown
                                          ELSE rAuto'[k - 1].after
                    /\ rAuto'[k].after =
                           rAuto'[k].before \cup C18Tokens(rAuto'[k].up)
             /\ rKnown' = IF rAuto' = <<>> THEN rKnown
                          ELSE rAuto'[Len(rAuto')].after
             /\ rBranch' \in {"direct", "chat-sentinel", "planner-tool",
                              "confident-chat"}
                  => rAuto' = <<>> /\ rKnown' = rKnown
      ]_vars

\* "Budget.CSV is a file" was answered by the pass-through rule, and
\* known_files gained "budget.csv"
C18_Witness ==
    /\ rPc = "returned" /\ rInput = I_budget_decl
    /\ Len(rAuto) = 1 /\ rAuto[1].rule = "pass-through"
    /\ <<"b", "u", "d", "g", "e", "t", ".", "c", "s", "v">> \notin rKnown0
    /\ rKnown = rKnown0 \cup {<<"b", "u", "d", "g", "e", "t", ".", "c", "s", "v">>}

\* the message at k is an assistant message holding a JSON object with a
\* "tool" and an "args" key, and the next one is the observation of result
C19Pair(msgs, k, result) ==
    /\ k + 1 <= Len(msgs)
    /\ msgs[k].role = "assistant"
    /\ LET d == json_loads(msgs[k].content)
       IN  d.ok /\ IsDict(d.v) /\ {K_tool, K_args} \subseteq DOMAIN d.v.o
    /\ msgs[k + 1] =
           [role |-> "system",
            content |-> <<"T", "O", "O", "L", "_", "R", "E", "S", "U", "L", "T",
                          ":", " ">> \o result]

\* C19: within one call of tools_loop.run_query msgs only grows at its end;
\* every tool that is run, the bootstrap read included, appends the assistant
\* directive and right after it the "TOOL_RESULT: ..." message of its result
\* before the next model call, at most one tool runs between two model calls,
\* and at every model call msgs holds one observation for each tool run so far.
C19_ConversationOrder ==
    [][ /\ Len(lMsgs) <= Len(lMsgs')
        /\ SubSeq(lMsgs', 1, Len(lMsgs)) = lMsgs
        /\ lToolRuns' \in {lToolRuns, lToolRuns + 1}
        /\ lToolRuns' = lToolRuns + 1 =>
             /\ lCalls' = lCalls + 1
             /\ Len(lMsgs') = Len(lMsgs) + 2
             /\ C19Pair(lMsgs', Len(lMsgs) + 1, lLast'.s)
        /\ lPc = "start" /\ lPc' = "planning" =>
             /\ lMsgs'[1].role = "system" /\ lMsgs'[2] = Msg("user", lq')
             /\ IF lBoot' = None THEN Len(lMsgs') = 2
                ELSE Len(lMsgs') = 4 /\ C19Pair(lMsgs', 3, lBoot'.s)
        /\ lPc' = "planning" =>
             Cardinality(C16ToolResults') =
                 lToolRuns' + (IF lBoot' = None THEN 0 ELSE 1)
      ]_vars

\* a bootstrap read and two tool calls: msgs holds the three directives, each
\* followed by its observation, and the third model call is about to be made
C19_Witness ==
    /\ lPc = "planning" /\ lBoot /= None /\ lToolRuns = 2 /\ lCalls = 2
    /\ Len(lMsgs) = 8
    /\ C19Pair(lMsgs, 3, lBoot.s) /\ C19Pair(lMsgs, 7, lLast.s)
    /\ \E k \in {5} : lMsgs[k].role = "assistant" /\ lMsgs[k + 1].role = "system"

\* C20: every turn of the loop whose response yields neither a tool call (a
\* tool with a mapping of args) nor a final answer - no JSON object, an empty
\* object, or an object lacking both - appends exactly one corrective message
\* and uses up one iteration, so that the next model call gets a longer msgs.
C20_CorrectiveReprompt ==
    [][ lPc = "planning" /\ lPc' = "planning" /\ lCalls' = lCalls + 1
        /\ lToolRuns' = lToolRuns
          => /\ lIter' = lIter + 1
             /\ lMsgs' = Append(lMsgs, Msg("user", S_corrective))
      ]_vars

\* the paths whose content differs between two disks
C21Changed(before, after) ==
    { p \in DOMAIN before \cup DOMAIN after :
          \/ p \notin DOMAIN before
          \/ p \notin DOMAIN after
          \/ before[p] /= after[p] }

\* C21: every call of agent.run_query runs at most one tool and calls llm() at
\* most twice: not at all for a direct command, once for the chat sentinel,
\* and otherwise the planner call followed by at most one chat or fallback
\* call, whatever the model answers and also when the call raises; the disk
\* changes in at most one file, and only when the one tool is write_file.
C21_OneDirective ==
    [][ rPc = "idle" /\ rPc' = "returned"
          => /\ Len(rRan') <= 1
             /\ Len(rLlm') <= 2
             /\ IF C12Command(strip(rInput')) THEN rLlm' = <<>>
                ELSE IF C13Chat(strip(rInput')) THEN rLlm' = <<"chat">>
                ELSE rLlm' \in {<<"planner">>, <<"planner", "chat">>,
                                <<"planner", "fallback">>}
             /\ Cardinality(C21Changed(rFiles, rFiles')) <= Len(rRan')
             /\ C21Changed(rFiles, rFiles') /= {}
                    => rRan'[1].tool = T_write_file
      ]_vars

\* "hello" with the planner choosing the tool route and no tool: the first
\* heuristic action is a final answer, the request falls through to the
\* fallback call, whose text is a write_file directive, and that one tool
\* writes the file: two model calls, two autowrap_to_action calls, one tool
C21_Witness ==
    /\ rPc = "returned" /\ rInput = I_hello /\ rPlan = P_tool_null
    /\ rBranch = "fallback-tool"
    /\ rLlm = <<"planner", "fallback">>
    /\ Len(rAuto) = 2
    /\ Len(rRan) = 1 /\ rRan[1].tool = T_write_file
    /\ ~rOut.raised

Init == InitLoop
Next == NextLoop
Spec == Init /\ [][Next]_vars
====
